---- MODULE Spec2Model ----
(***************************************************************************)
(* Order lifecycle, balance reconciliation and engine loop of the          *)
(* backtest package.                                                       *)
(*                                                                         *)
(* Money values are Decimal in the source; +, - and * are exact there, so  *)
(* they are modelled by integers.  The engine's 0.1% fee is kept exact by  *)
(* counting the engine's money in thousandths (see FeeScale).              *)
(* An Optional value is <<>> for None and <<v>> for a value v.             *)
(***************************************************************************)
EXTENDS Integers, Sequences, FiniteSets, TLC

VARIABLES
    order,      \* the TradingOrder under test (all of its mutable fields)
    orderCall,  \* the last method called on it, its arguments and outcome
    storage,    \* BalanceRepository._storage: the balances, in insertion order
    nextBalanceId,  \* the next balance_id that uuid4() hands out
    balCall,    \* the last BalanceRepository call, its arguments and outcome
    spot,       \* the SpotOrder value the copy methods are called on
    spotCall,   \* the last copy method called, its arguments and outcome
    enginePc,   \* where BacktestEngine.run() is: "idle", "running", "ended", "failed"
    current_balance,        \* BacktestEngine.current_balance, in thousandths
    current_bar,            \* BacktestEngine.current_bar (None before the first bar)
    orders,                 \* context.orders._storage, in insertion order
    account_transactions,   \* context.account_transactions._storage
    account_balances,       \* context.account_balances._storage
    nextOrderId,            \* the next id uuid4() gives a TradingOrder
    initial_capital,        \* BacktestEngine.initial_capital, in thousandths
    data,                   \* the frame given to run(): None before the call
    strategyLog,            \* the strategy callbacks and the forced closure, in call order
    raisedOrder,            \* the order whose fill() made run() raise (None if none)
    on_bar_result,          \* the orders the last on_bar call returned
    rowsTaken,              \* the rows the bar loop of the current run() has taken
    runCalls,               \* how many times run() was called on the engine
    results,                \* the metrics the completed run() calls returned
    script,                 \* bars and strategy outputs per row, for runs that are repeated
    config,                 \* the configuration repositories of the context
    order_history,          \* context.order_history._storage
    backtest_runs,          \* context.backtest_runs._storage
    chain,      \* the orders constructed so far, each possibly split from an earlier one
    rules,      \* the TradingRules under test (a frozen dataclass)
    rulesCall,  \* the last TradingRules method called, its arguments and outcome
    _data,      \* MarketDataRepository._data: key -> the bars held under it
    marketCall, \* the last MarketDataRepository call and the bars given to it
    asset_storage,  \* AssetRepository._storage: id -> asset
    _ticker_index,  \* AssetRepository._ticker_index: ticker -> id
    contextCall,    \* the last BacktestContext call and the context before it
    tx_storage,     \* TransactionRepository._storage: the transactions, in insertion order
    nextTxId,       \* the next transaction_id that uuid4() hands out
    now,            \* the time at which transactions and snapshots are made
    ledgerCall,     \* the last TransactionRepository call or reconciliation step
    cash,           \* Portfolio.cash, in halves
    commission,     \* Portfolio.commission, in halves
    positions,      \* Portfolio.positions: symbol -> position
    transaction_history,    \* Portfolio.transaction_history
    closed_positions,       \* Portfolio.closed_positions
    portfolioOrder, \* the Order last given to execute_order (None before)
    portfolioCall,  \* the last execute_order call, what it returned and the portfolio before it
    spot_storage,   \* SpotOrderRepository._storage: id -> order
    made,           \* the SpotOrder objects constructed so far, each with the one it was copied from
    _subscribers,   \* EventHandler._subscribers: event type -> the callbacks, in subscription order
    emitCall        \* the emit call in progress or returned last: its list iterator and the callbacks invoked

orderVars == <<order, orderCall>>
balVars == <<storage, nextBalanceId, balCall>>
spotVars == <<spot, spotCall>>
engineVars ==
    <<enginePc, current_balance, current_bar, orders, account_transactions,
      account_balances, nextOrderId, initial_capital, data, strategyLog,
      raisedOrder, on_bar_result, rowsTaken, runCalls, results, script,
      config, order_history, backtest_runs>>
chainVars == <<chain>>
rulesVars == <<rules, rulesCall>>
marketVars == <<_data, marketCall>>
assetVars == <<asset_storage, _ticker_index>>
contextVars == <<contextCall>>
ledgerVars == <<tx_storage, nextTxId, now, ledgerCall>>
portfolioVars == <<cash, commission, positions, transaction_history, closed_positions, portfolioOrder, portfolioCall>>
bookVars == <<spot_storage, made>>
eventVars == <<_subscribers, emitCall>>

coreVars == <<orderVars, balVars, spotVars, engineVars, chainVars>>
exceptRules == <<coreVars, marketVars, assetVars, contextVars, ledgerVars, portfolioVars, bookVars, eventVars>>
othersRules == <<marketVars, assetVars, contextVars, ledgerVars, portfolioVars, bookVars, eventVars>>
exceptMarket == <<coreVars, rulesVars, assetVars, contextVars, ledgerVars, portfolioVars, bookVars, eventVars>>
othersMarket == <<rulesVars, assetVars, contextVars, ledgerVars, portfolioVars, bookVars, eventVars>>
exceptAssets == <<coreVars, rulesVars, marketVars, contextVars, ledgerVars, portfolioVars, bookVars, eventVars>>
othersAssets == <<rulesVars, marketVars, contextVars, ledgerVars, portfolioVars, bookVars, eventVars>>
exceptContext == <<coreVars, rulesVars, marketVars, assetVars, ledgerVars, portfolioVars, bookVars, eventVars>>
othersContext == <<rulesVars, marketVars, assetVars, ledgerVars, portfolioVars, bookVars, eventVars>>
exceptLedger == <<coreVars, rulesVars, marketVars, assetVars, contextVars, portfolioVars, bookVars, eventVars>>
othersLedger == <<rulesVars, marketVars, assetVars, contextVars, portfolioVars, bookVars, eventVars>>
exceptPortfolio == <<coreVars, rulesVars, marketVars, assetVars, contextVars, ledgerVars, bookVars, eventVars>>
othersPortfolio == <<rulesVars, marketVars, assetVars, contextVars, ledgerVars, bookVars, eventVars>>
exceptBook == <<coreVars, rulesVars, marketVars, assetVars, contextVars, ledgerVars, portfolioVars, eventVars>>
othersBook == <<rulesVars, marketVars, assetVars, contextVars, ledgerVars, portfolioVars, eventVars>>
exceptEvents == <<coreVars, rulesVars, marketVars, assetVars, contextVars, ledgerVars, portfolioVars, bookVars>>
othersEvents == <<rulesVars, marketVars, assetVars, contextVars, ledgerVars, portfolioVars, bookVars>>
restVars == <<rulesVars, marketVars, assetVars, contextVars, ledgerVars, portfolioVars, bookVars, eventVars>>

vars == <<coreVars, restVars>>

----------------------------------------------------------------------------
(* Bounds of the model *)

MaxVolume == 2      \* order volumes 1..MaxVolume
MaxPrice == 2       \* prices 1..MaxPrice
MaxFee == 1         \* fee arguments -1..MaxFee
MaxTime == 1        \* timestamps 1..MaxTime
MaxOvernight == 2   \* cap of the accumulated overnight fees
MaxTx == 2          \* length of the transaction list given to reconcile_balance
MaxStored == 2      \* number of Balance objects created in one behaviour
MaxAmount == 1      \* balance amounts -1..MaxAmount
MaxBars == 2        \* rows of the data frame given to run()
MaxIntents == 1     \* orders the strategy returns from one on_bar call
MaxChain == 3       \* orders constructed in one chain
SmallCapital == 1   \* an initial capital that the dearest order exceeds
MaxRuns == 2        \* run() calls on one engine
MaxEntities == 1    \* entities a repository of the context holds
MaxLeverage == 2    \* leverage_value of the trading rules
MaxContractSize == 2    \* contract_size given to the trading rules
MaxMargin == 4      \* available margin given to validate_order
MaxStamp == 3       \* timestamps of the bars given to the market data repository
MaxHeld == 3        \* bars the market data repository holds
MaxBatch == 2       \* bars given to one save_bars call
MaxAssets == 3      \* ids of the assets given to the asset repository
MaxLedger == 2      \* transactions saved in the transaction repository
MaxClock == 2       \* the latest time of a transaction or a snapshot
MaxSnapshots == 3   \* snapshots the reconciliation protocol stores
MaxCash == 3        \* initial capital of the portfolio
MaxCommission == 2  \* commission of the portfolio
MaxExecuted == 3    \* execute_order calls on the portfolio
MaxMade == 3        \* SpotOrder objects constructed for the spot order repository
MaxOriginals == 2   \* pending originals among them
MaxCallbacks == 2   \* callbacks given to the event handler
MaxSubscribed == 3  \* subscriptions the event handler holds over all event types

\* Portfolio money is counted in halves, so that a commission of 0.5, which
\* _calculate_commission takes as a rate, is exact.
CashScale == 2

None == <<>>
Some(v) == <<v>>
Val(x) == x[1]
Opt(S) == {None} \cup {Some(v) : v \in S}

Volumes == 1..MaxVolume
Prices == 1..MaxPrice
FeeArgs == (0 - 1)..MaxFee
Times == 1..MaxTime
MarginArgs == 0..1

OrderDirection == {"LONG", "SHORT"}
OrderStatus == {"PENDING", "FILLED", "CANCELLED", "CLOSED"}

----------------------------------------------------------------------------
(* TradingOrder: src/backtest/models/orders.py *)

\* The dataclass with its defaults for the fields the constructor is not
\* given here.
TradingOrder(id, trading_pair_code, direction, volume, status, fill_price, stop_loss, take_profit, parent_order_id, root_order_id) ==
    [ id |-> id,
      parent_order_id |-> parent_order_id,
      root_order_id |-> IF root_order_id = None /\ parent_order_id = None
                        THEN Some(id) ELSE root_order_id,
      trading_pair_code |-> trading_pair_code,
      direction |-> direction,
      volume |-> volume,
      status |-> status,
      fill_timestamp |-> None,
      fill_price |-> fill_price,
      close_timestamp |-> None,
      close_price |-> None,
      cancel_timestamp |-> None,
      stop_loss |-> stop_loss,
      take_profit |-> take_profit,
      fees_on_create |-> 0,
      fees_on_fill |-> 0,
      fees_on_close |-> 0,
      fees_on_cancel |-> 0,
      fees_on_overnight |-> 0,
      margin_reserved |-> 0,
      gross_pnl |-> 0,
      net_pnl |-> 0 ]

total_fees(o) ==
    o.fees_on_create + o.fees_on_fill + o.fees_on_close
        + o.fees_on_cancel + o.fees_on_overnight

\* Each method is an operator from the order and the arguments to the
\* outcome: raised (the ValueError) and the order after the call.

\* Mutant of fill: the guard only rejects orders that hold a position.
fill_GuardOnlyOpen(o, fill_timestamp, fill_price, fees_on_fill, margin_reserved) ==
    IF o.status \in {"FILLED", "CLOSED"}
    THEN [raised |-> TRUE, order |-> o]
    ELSE [raised |-> FALSE,
          order |-> [o EXCEPT !.fill_timestamp = Some(fill_timestamp),
                              !.fill_price = Some(fill_price),
                              !.fees_on_fill = fees_on_fill,
                              !.margin_reserved = margin_reserved,
                              !.status = "FILLED"]]

\* Mutant of fill: the fill timestamp is not recorded.
fill_ForgetsTimestamp(o, fill_timestamp, fill_price, fees_on_fill, margin_reserved) ==
    IF o.status # "PENDING"
    THEN [raised |-> TRUE, order |-> o]
    ELSE [raised |-> FALSE,
          order |-> [o EXCEPT !.fill_price = Some(fill_price),
                              !.fees_on_fill = fees_on_fill,
                              !.margin_reserved = margin_reserved,
                              !.status = "FILLED"]]

fill(o, fill_timestamp, fill_price, fees_on_fill, margin_reserved) ==
    IF o.status # "PENDING"
    THEN [raised |-> TRUE, order |-> o]
    ELSE [raised |-> FALSE,
          order |-> [o EXCEPT !.fill_timestamp = Some(fill_timestamp),
                              !.fill_price = Some(fill_price),
                              !.fees_on_fill = fees_on_fill,
                              !.margin_reserved = margin_reserved,
                              !.status = "FILLED"]]

\* Mutant of close: the close fields are assigned before the fill price is
\* checked.
close_AssignBeforeCheck(o, close_timestamp, close_price, fees_on_close) ==
    IF o.status # "FILLED"
    THEN [raised |-> TRUE, order |-> o]
    ELSE IF o.fill_price = None
    THEN [raised |-> TRUE,
          order |-> [o EXCEPT !.close_timestamp = Some(close_timestamp),
                              !.close_price = Some(close_price)]]
    ELSE LET o1 == [o EXCEPT !.close_timestamp = Some(close_timestamp),
                             !.close_price = Some(close_price),
                             !.fees_on_close = fees_on_close,
                             !.status = "CLOSED"]
             gross == IF o.direction = "LONG"
                      THEN (close_price - Val(o.fill_price)) * o.volume
                      ELSE (Val(o.fill_price) - close_price) * o.volume
             o2 == [o1 EXCEPT !.gross_pnl = gross]
         IN [raised |-> FALSE,
             order |-> [o2 EXCEPT !.net_pnl = o2.gross_pnl - total_fees(o2)]]

\* Mutant of close: the SHORT branch uses the LONG formula.
close_ShortAsLong(o, close_timestamp, close_price, fees_on_close) ==
    IF o.status # "FILLED"
    THEN [raised |-> TRUE, order |-> o]
    ELSE IF o.fill_price = None
    THEN [raised |-> TRUE, order |-> o]
    ELSE LET o1 == [o EXCEPT !.close_timestamp = Some(close_timestamp),
                             !.close_price = Some(close_price),
                             !.fees_on_close = fees_on_close,
                             !.status = "CLOSED"]
             gross == (close_price - Val(o.fill_price)) * o.volume
             o2 == [o1 EXCEPT !.gross_pnl = gross]
         IN [raised |-> FALSE,
             order |-> [o2 EXCEPT !.net_pnl = o2.gross_pnl - total_fees(o2)]]

close(o, close_timestamp, close_price, fees_on_close) ==
    IF o.status # "FILLED"
    THEN [raised |-> TRUE, order |-> o]
    ELSE IF o.fill_price = None
    THEN [raised |-> TRUE, order |-> o]
    ELSE LET o1 == [o EXCEPT !.close_timestamp = Some(close_timestamp),
                             !.close_price = Some(close_price),
                             !.fees_on_close = fees_on_close,
                             !.status = "CLOSED"]
             gross == IF o.direction = "LONG"
                      THEN (close_price - Val(o.fill_price)) * o.volume
                      ELSE (Val(o.fill_price) - close_price) * o.volume
             o2 == [o1 EXCEPT !.gross_pnl = gross]
         IN [raised |-> FALSE,
             order |-> [o2 EXCEPT !.net_pnl = o2.gross_pnl - total_fees(o2)]]

\* Mutant of cancel: net_pnl is computed before the cancel fee is recorded.
cancel_NetBeforeFee(o, cancel_timestamp, fees_on_cancel) ==
    IF o.status # "PENDING"
    THEN [raised |-> TRUE, order |-> o]
    ELSE [raised |-> FALSE,
          order |-> [o EXCEPT !.cancel_timestamp = Some(cancel_timestamp),
                              !.fees_on_cancel = fees_on_cancel,
                              !.status = "CANCELLED",
                              !.net_pnl = 0 - total_fees(o)]]

cancel(o, cancel_timestamp, fees_on_cancel) ==
    IF o.status # "PENDING"
    THEN [raised |-> TRUE, order |-> o]
    ELSE LET o1 == [o EXCEPT !.cancel_timestamp = Some(cancel_timestamp),
                             !.fees_on_cancel = fees_on_cancel,
                             !.status = "CANCELLED"]
         IN [raised |-> FALSE,
             order |-> [o1 EXCEPT !.net_pnl = 0 - total_fees(o1)]]

\* Mutant of add_overnight_fees: net_pnl is not recomputed.
add_overnight_fees_NoRecompute(o, fees) ==
    IF fees < 0
    THEN [raised |-> TRUE, order |-> o]
    ELSE [raised |-> FALSE,
          order |-> [o EXCEPT !.fees_on_overnight = o.fees_on_overnight + fees]]

add_overnight_fees(o, fees) ==
    IF fees < 0
    THEN [raised |-> TRUE, order |-> o]
    ELSE LET o1 == [o EXCEPT !.fees_on_overnight = o.fees_on_overnight + fees]
         IN [raised |-> FALSE,
             order |-> IF o1.status = "CLOSED"
                       THEN [o1 EXCEPT !.net_pnl = o1.gross_pnl - total_fees(o1)]
                       ELSE o1]

NoCall == [op |-> "new", raised |-> FALSE, ts |-> 0, price |-> 0, fee |-> 0]

\* The record of a call: its name, whether it raised and, when it went
\* through, its arguments (a call that raises does not use them).
Call(op, raised, ts, price, fee) ==
    IF raised
    THEN [op |-> op, raised |-> TRUE, ts |-> 0, price |-> 0, fee |-> 0]
    ELSE [op |-> op, raised |-> FALSE, ts |-> ts, price |-> price, fee |-> fee]

\* An order created the usual way: PENDING, nothing else set.
InitOrder ==
    /\ \E d \in OrderDirection, v \in Volumes :
          order = TradingOrder(1, "AAPL", d, v, "PENDING", None, None, None, None, None)
    /\ orderCall = NoCall

\* An order constructed in any status, with or without a fill price.
InitOrderAny ==
    /\ \E d \in OrderDirection, v \in Volumes, s \in OrderStatus,
          fp \in Opt(Prices) :
          order = TradingOrder(1, "AAPL", d, v, s, fp, None, None, None, None)
    /\ orderCall = NoCall

Fill ==
    \E ts \in Times, p \in Prices, f \in FeeArgs, m \in MarginArgs :
        LET r == fill(order, ts, p, f, m) IN
        /\ UNCHANGED <<balVars, spotVars, engineVars, chainVars, restVars>>
        /\ order' = r.order
        /\ orderCall' = Call("fill", r.raised, ts, p, f)

Close ==
    \E ts \in Times, p \in Prices, f \in FeeArgs :
        LET r == close(order, ts, p, f) IN
        /\ UNCHANGED <<balVars, spotVars, engineVars, chainVars, restVars>>
        /\ order' = r.order
        /\ orderCall' = Call("close", r.raised, ts, p, f)

Cancel ==
    \E ts \in Times, f \in FeeArgs :
        LET r == cancel(order, ts, f) IN
        /\ UNCHANGED <<balVars, spotVars, engineVars, chainVars, restVars>>
        /\ order' = r.order
        /\ orderCall' = Call("cancel", r.raised, ts, 0, f)

AddOvernightFees ==
    \E f \in FeeArgs :
        LET r == add_overnight_fees(order, f) IN
        /\ r.order.fees_on_overnight <= MaxOvernight
        /\ UNCHANGED <<balVars, spotVars, engineVars, chainVars, restVars>>
        /\ order' = r.order
        /\ orderCall' = Call("add_overnight_fees", r.raised, 0, 0, f)

NextOrder ==
    \/ Fill
    \/ Close
    \/ Cancel
    \/ AddOvernightFees

----------------------------------------------------------------------------
(* Balance, Transaction and BalanceRepository:
   src/backtest/models/balance.py, src/backtest/models/transaction.py,
   src/backtest/repositories/balance_repository.py *)

Accounts == {"A1"}
Runs == {1, 2}
BalanceTimes == {1, 2}
Amounts == (0 - 1)..MaxAmount

\* A Transaction, reduced to the two balance deltas reconciliation reads.
Transaction(available_balance_change, unavailable_balance_change) ==
    [ available_balance_change |-> available_balance_change,
      unavailable_balance_change |-> unavailable_balance_change ]

\* One transaction per kind of movement: RESERVE_MARGIN, RETURN_MARGIN,
\* a fee and a CLOSE_PNL credit.
Transactions ==
    { Transaction(0 - 1, 1), Transaction(1, 0 - 1),
      Transaction(0 - 1, 0), Transaction(1, 0) }

total_balance_change(t) ==
    t.available_balance_change + t.unavailable_balance_change

TxLists == UNION { [1..n -> Transactions] : n \in 0..MaxTx }

\* Mutant of the Balance validation: only the available balance is checked.
Balance_post_init_AvailableOnly(available_balance, unavailable_balance) ==
    ~(available_balance < 0)

\* Balance.__post_init__: TRUE when construction goes through, FALSE when it
\* raises ValueError.
Balance_post_init(available_balance, unavailable_balance) ==
    /\ ~(available_balance < 0)
    /\ ~(unavailable_balance < 0)

Balance(balance_id, account_id, backtest_run_id, timestamp, available_balance, unavailable_balance) ==
    [ balance_id |-> balance_id,
      account_id |-> account_id,
      backtest_run_id |-> backtest_run_id,
      timestamp |-> timestamp,
      available_balance |-> available_balance,
      unavailable_balance |-> unavailable_balance ]

total_balance(b) == b.available_balance + b.unavailable_balance

\* dict semantics of _storage[balance_id] = entity: an existing key keeps its
\* position, a new key goes last.
save(st, entity) ==
    IF \E i \in 1..Len(st) : st[i].balance_id = entity.balance_id
    THEN [i \in 1..Len(st) |->
             IF st[i].balance_id = entity.balance_id THEN entity ELSE st[i]]
    ELSE Append(st, entity)

Filter(seq, Keep(_)) == SelectSeq(seq, Keep)

\* sorted(balances, key=lambda b: b.timestamp): a stable sort.
RECURSIVE InsertByTimestamp(_, _)
InsertByTimestamp(sorted, b) ==
    IF sorted = <<>> THEN <<b>>
    ELSE IF sorted[Len(sorted)].timestamp <= b.timestamp
         THEN Append(sorted, b)
         ELSE Append(InsertByTimestamp(SubSeq(sorted, 1, Len(sorted) - 1), b),
                     sorted[Len(sorted)])

RECURSIVE SortedByTimestamp(_)
SortedByTimestamp(seq) ==
    IF seq = <<>> THEN <<>>
    ELSE InsertByTimestamp(SortedByTimestamp(SubSeq(seq, 1, Len(seq) - 1)),
                           seq[Len(seq)])

get_by_account(st, account_id, backtest_run_id) ==
    LET ofAccount(b) == b.account_id = account_id
        ofRun(b) == b.backtest_run_id = backtest_run_id
    IN SortedByTimestamp(Filter(Filter(st, ofAccount), ofRun))

get_latest_balance(st, account_id, backtest_run_id) ==
    LET balances == get_by_account(st, account_id, backtest_run_id)
    IN IF balances # <<>> THEN Some(balances[Len(balances)]) ELSE None

\* The loop of reconcile_balance: the running pair after the first n
\* transactions.
RECURSIVE ApplyTransactions(_, _, _, _)
ApplyTransactions(available, unavailable, transactions, n) ==
    IF n = 0 THEN <<available, unavailable>>
    ELSE LET before == ApplyTransactions(available, unavailable,
                                         transactions, n - 1)
         IN <<before[1] + transactions[n].available_balance_change,
              before[2] + transactions[n].unavailable_balance_change>>

\* Mutant of reconcile_balance: an invalid result is clamped to zero and
\* saved instead of being rejected.
reconcile_balance_Clamp(st, new_id, account_id, backtest_run_id, timestamp, transactions, initial_balance) ==
    LET start == IF initial_balance = None THEN <<0, 0>>
                 ELSE <<Val(initial_balance).available_balance,
                        Val(initial_balance).unavailable_balance>>
        end == ApplyTransactions(start[1], start[2], transactions,
                                 Len(transactions))
        new_balance == Balance(new_id, account_id, backtest_run_id, timestamp,
                               IF end[1] < 0 THEN 0 ELSE end[1],
                               IF end[2] < 0 THEN 0 ELSE end[2])
    IN [raised |-> ~Balance_post_init(end[1], end[2]),
        result |-> None, storage |-> save(st, new_balance)]

\* Mutant of reconcile_balance: the unavailable delta is dropped.
reconcile_balance_AvailableOnly(st, new_id, account_id, backtest_run_id, timestamp, transactions, initial_balance) ==
    LET start == IF initial_balance = None THEN <<0, 0>>
                 ELSE <<Val(initial_balance).available_balance,
                        Val(initial_balance).unavailable_balance>>
        end == ApplyTransactions(start[1], start[2], transactions,
                                 Len(transactions))
        new_balance == Balance(new_id, account_id, backtest_run_id, timestamp,
                               end[1], start[2])
    IN IF ~Balance_post_init(end[1], start[2])
       THEN [raised |-> TRUE, result |-> None, storage |-> st]
       ELSE [raised |-> FALSE, result |-> Some(new_balance),
             storage |-> save(st, new_balance)]

\* Mutant of reconcile_balance: the running pair is validated after every
\* transaction, not only at the end.
reconcile_balance_ChecksEachStep(st, new_id, account_id, backtest_run_id, timestamp, transactions, initial_balance) ==
    LET start == IF initial_balance = None THEN <<0, 0>>
                 ELSE <<Val(initial_balance).available_balance,
                        Val(initial_balance).unavailable_balance>>
        at(n) == ApplyTransactions(start[1], start[2], transactions, n)
        end == at(Len(transactions))
        new_balance == Balance(new_id, account_id, backtest_run_id, timestamp,
                               end[1], end[2])
    IN IF \E n \in 0..Len(transactions) : ~Balance_post_init(at(n)[1], at(n)[2])
       THEN [raised |-> TRUE, result |-> None, storage |-> st]
       ELSE [raised |-> FALSE, result |-> Some(new_balance),
             storage |-> save(st, new_balance)]

\* reconcile_balance: the outcome is raised (Balance() rejected the result),
\* the returned balance and the storage after the call.
reconcile_balance(st, new_id, account_id, backtest_run_id, timestamp, transactions, initial_balance) ==
    LET start == IF initial_balance = None THEN <<0, 0>>
                 ELSE <<Val(initial_balance).available_balance,
                        Val(initial_balance).unavailable_balance>>
        end == ApplyTransactions(start[1], start[2], transactions,
                                 Len(transactions))
        new_balance == Balance(new_id, account_id, backtest_run_id, timestamp,
                               end[1], end[2])
    IN IF ~Balance_post_init(end[1], end[2])
       THEN [raised |-> TRUE, result |-> None, storage |-> st]
       ELSE [raised |-> FALSE, result |-> Some(new_balance),
             storage |-> save(st, new_balance)]

\* Mutant of clear_run: the balances of the other runs go as well.
clear_run_Everything(st, backtest_run_id) ==
    LET ofRun(b) == b.backtest_run_id = backtest_run_id
    IN [storage |-> <<>>, deleted |-> Len(Filter(st, ofRun))]

\* clear_run: delete every balance of the run; returns how many.
clear_run(st, backtest_run_id) ==
    LET ofOtherRun(b) == b.backtest_run_id # backtest_run_id
        kept == Filter(st, ofOtherRun)
    IN [storage |-> kept, deleted |-> Len(st) - Len(kept)]

NoBalCall ==
    [op |-> "new", raised |-> FALSE, ctor |-> None, prior |-> None,
     txs |-> <<>>, result |-> None, run |-> 0, deleted |-> 0]

InitBalance ==
    /\ storage = <<>>
    /\ nextBalanceId = 1
    /\ balCall = NoBalCall

\* Balance(...) followed by repo.save(balance); the balance_id is the default
\* (a fresh uuid4) or the id of a balance that is already stored.
SaveBalance ==
    \E r \in Runs, a \in Accounts, ts \in BalanceTimes, av \in Amounts,
       un \in Amounts,
       id \in {nextBalanceId} \cup {storage[i].balance_id : i \in 1..Len(storage)} :
        /\ id = nextBalanceId => nextBalanceId <= MaxStored
        /\ UNCHANGED <<orderVars, spotVars, engineVars, chainVars, restVars>>
        /\ IF Balance_post_init(av, un)
           THEN /\ storage' = save(storage, Balance(id, a, r, ts, av, un))
                /\ nextBalanceId' =
                       IF id = nextBalanceId THEN nextBalanceId + 1
                       ELSE nextBalanceId
                /\ balCall' = [NoBalCall EXCEPT
                                  !.op = "save", !.ctor = Some(<<av, un>>),
                                  !.result = Some(Balance(id, a, r, ts, av, un))]
           ELSE /\ UNCHANGED <<storage, nextBalanceId>>
                /\ balCall' = [NoBalCall EXCEPT
                                  !.op = "save", !.raised = TRUE,
                                  !.ctor = Some(<<av, un>>)]

\* reconcile_balance with the latest snapshot of the account, or none, as
\* the prior balance.
ReconcileBalance ==
    \E r \in Runs, a \in Accounts, ts \in BalanceTimes, txs \in TxLists,
       prior \in {None} \cup {Some(storage[i]) : i \in 1..Len(storage)} :
        LET out == reconcile_balance(storage, nextBalanceId, a, r, ts, txs,
                                     prior)
        IN /\ nextBalanceId <= MaxStored
           /\ out.result # None =>
                 /\ Val(out.result).available_balance <= MaxAmount
                 /\ Val(out.result).unavailable_balance <= MaxAmount
           /\ UNCHANGED <<orderVars, spotVars, engineVars, chainVars, restVars>>
           /\ storage' = out.storage
           /\ nextBalanceId' =
                  IF out.raised THEN nextBalanceId ELSE nextBalanceId + 1
           /\ balCall' = [NoBalCall EXCEPT
                             !.op = "reconcile_balance",
                             !.raised = out.raised,
                             !.prior = prior, !.txs = txs,
                             !.result = out.result]

ClearRun ==
    \E r \in Runs :
        /\ UNCHANGED <<orderVars, spotVars, engineVars, chainVars, restVars>>
        /\ storage' = clear_run(storage, r).storage
        /\ UNCHANGED nextBalanceId
        /\ balCall' = [NoBalCall EXCEPT
                          !.op = "clear_run", !.run = r,
                          !.deleted = clear_run(storage, r).deleted]

NextBalance ==
    \/ SaveBalance
    \/ ReconcileBalance
    \/ ClearRun

----------------------------------------------------------------------------
(* SpotOrder: src/backtest/models/spot_order.py *)

\* The frozen dataclass; __post_init__ makes an order without parent and
\* without root its own root.
SpotOrder(id, parent_id, root_id, direction, status, volume, fill_timestamp, fill_price, fill_volume, cancel_timestamp, cancel_volume, fee_create, fee_fill, fee_cancel) ==
    [ id |-> id,
      parent_id |-> parent_id,
      root_id |-> IF root_id = None /\ parent_id = None
                  THEN Some(id) ELSE root_id,
      direction |-> direction,
      status |-> status,
      volume |-> volume,
      fill_timestamp |-> fill_timestamp,
      fill_price |-> fill_price,
      fill_volume |-> fill_volume,
      cancel_timestamp |-> cancel_timestamp,
      cancel_volume |-> cancel_volume,
      fee_create |-> fee_create,
      fee_fill |-> fee_fill,
      fee_cancel |-> fee_cancel ]

\* Python's "x or default" on an Optional[Decimal]: None and 0 are falsy.
OrElse(x, default) ==
    IF x = None THEN default
    ELSE IF Val(x) = 0 THEN default
    ELSE Val(x)

remaining_volume(o) ==
    LET filled == OrElse(o.fill_volume, 0)
        cancelled == OrElse(o.cancel_volume, 0)
    IN o.volume - filled - cancelled

create_filled_copy(o, fill_timestamp, fill_price, fill_volume, fee_fill) ==
    IF o.status # "PENDING"
    THEN [raised |-> TRUE, result |-> None]
    ELSE LET fill_vol == OrElse(fill_volume, o.volume) IN
         IF fill_vol <= 0 \/ fill_vol > o.volume
         THEN [raised |-> TRUE, result |-> None]
         ELSE [raised |-> FALSE,
               result |-> Some(SpotOrder(
                   o.id, o.parent_id, o.root_id, o.direction, "FILLED",
                   o.volume, Some(fill_timestamp), Some(fill_price),
                   Some(fill_vol), o.cancel_timestamp, o.cancel_volume,
                   o.fee_create, fee_fill, o.fee_cancel))]

\* Mutant of create_cancelled_copy: the fill fields are not carried over.
create_cancelled_copy_DropsFill(o, cancel_timestamp, cancel_volume, fee_cancel) ==
    IF o.status # "PENDING"
    THEN [raised |-> TRUE, result |-> None]
    ELSE LET cancel_vol == OrElse(cancel_volume, remaining_volume(o)) IN
         IF cancel_vol <= 0 \/ cancel_vol > remaining_volume(o)
         THEN [raised |-> TRUE, result |-> None]
         ELSE [raised |-> FALSE,
               result |-> Some(SpotOrder(
                   o.id, o.parent_id, o.root_id, o.direction, "CANCELLED",
                   o.volume, None, None, None,
                   Some(cancel_timestamp), Some(cancel_vol),
                   o.fee_create, o.fee_fill, fee_cancel))]

create_cancelled_copy(o, cancel_timestamp, cancel_volume, fee_cancel) ==
    IF o.status # "PENDING"
    THEN [raised |-> TRUE, result |-> None]
    ELSE LET cancel_vol == OrElse(cancel_volume, remaining_volume(o)) IN
         IF cancel_vol <= 0 \/ cancel_vol > remaining_volume(o)
         THEN [raised |-> TRUE, result |-> None]
         ELSE [raised |-> FALSE,
               result |-> Some(SpotOrder(
                   o.id, o.parent_id, o.root_id, o.direction, "CANCELLED",
                   o.volume, o.fill_timestamp, o.fill_price, o.fill_volume,
                   Some(cancel_timestamp), Some(cancel_vol),
                   o.fee_create, o.fee_fill, fee_cancel))]

SpotStatus == {"PENDING", "FILLED", "CANCELLED"}
VolumeArgs == Opt(0..(MaxVolume + 1))
SpotFeeArgs == Opt(0..MaxFee)

NoSpotCall ==
    [op |-> "new", raised |-> FALSE, timestamp |-> None, price |-> None,
     volume |-> None, fee |-> None, result |-> None]

\* The order another order is split from.
ParentId == 0

\* A constructible SpotOrder: any status, with or without volumes already
\* filled and cancelled (as tests/test_models/test_spot_order.py builds them).
InitSpot ==
    /\ \E d \in OrderDirection, st \in SpotStatus, v \in Volumes,
          fv \in Opt(0..MaxVolume), cv \in Opt(0..MaxVolume),
          parent \in Opt({ParentId}) :
          spot = SpotOrder(1, parent, parent, d, st, v, None, None, fv,
                           None, cv, None, None, None)
    /\ spotCall = NoSpotCall

CreateFilledCopy ==
    \E ts \in Times, p \in Prices, fv \in VolumeArgs, fee \in SpotFeeArgs :
        LET r == create_filled_copy(spot, ts, p, fv, fee) IN
        /\ UNCHANGED <<orderVars, balVars, engineVars, chainVars, restVars>>
        /\ UNCHANGED spot
        /\ spotCall' = [op |-> "create_filled_copy", raised |-> r.raised,
                        timestamp |-> Some(ts), price |-> Some(p),
                        volume |-> fv, fee |-> fee, result |-> r.result]

CreateCancelledCopy ==
    \E ts \in Times, cv \in VolumeArgs, fee \in SpotFeeArgs :
        LET r == create_cancelled_copy(spot, ts, cv, fee) IN
        /\ UNCHANGED <<orderVars, balVars, engineVars, chainVars, restVars>>
        /\ UNCHANGED spot
        /\ spotCall' = [op |-> "create_cancelled_copy", raised |-> r.raised,
                        timestamp |-> Some(ts), price |-> None,
                        volume |-> cv, fee |-> fee, result |-> r.result]

NextSpot ==
    \/ CreateFilledCopy
    \/ CreateCancelledCopy

----------------------------------------------------------------------------
(* BacktestEngine: src/backtest/core/engine.py, with AccountTransaction and
   AccountBalance of src/backtest/models/backtest_run.py.  The engine's money
   (prices, fees, balances) is counted in thousandths; the prices it is given
   are whole units, so the 0.1% fee is exact. *)

FeeScale == 1000
InitialCapital == 100000

\* The initial_capital the engine is constructed with: the default, or a
\* small one.
Capitals == { InitialCapital * FeeScale, SmallCapital * FeeScale }
Symbol == "AAPL"
BarPrices == { p * FeeScale : p \in Prices }

\* BarData.__post_init__ on high, low and close (open is not read by the
\* engine): TRUE when the bar can be constructed.
BarData_post_init(high, low, close_) ==
    /\ ~(high < low)
    /\ ~(close_ < low \/ close_ > high)

BarData(timestamp, high, low, close_) ==
    [ symbol |-> Symbol, timestamp |-> timestamp,
      high |-> high, low |-> low, close |-> close_ ]

\* The rows a data frame can hold at a timestamp.
Bars(timestamp) ==
    { BarData(timestamp, h, l, c) :
        <<h, l, c>> \in { x \in BarPrices \X BarPrices \X BarPrices :
                             BarData_post_init(x[1], x[2], x[3]) } }

AccountTransaction(timestamp, amount, transaction_type, related_order_id) ==
    [ timestamp |-> timestamp, amount |-> amount,
      transaction_type |-> transaction_type,
      related_order_id |-> related_order_id ]

AccountBalance(timestamp, total, available_balance) ==
    [ timestamp |-> timestamp, total_balance |-> total,
      available_balance |-> available_balance, unavailable_balance |-> 0 ]

\* InMemoryRepository.save: _storage[entity.id] = entity.
save_entity(st, entity) ==
    IF \E i \in 1..Len(st) : st[i].id = entity.id
    THEN [i \in 1..Len(st) |-> IF st[i].id = entity.id THEN entity ELSE st[i]]
    ELSE Append(st, entity)

get_filled_orders(st) ==
    LET isFilled(o) == o.status = "FILLED" IN SelectSeq(st, isFilled)

\* fill_price * volume * Decimal("0.001")
Fee(price, volume) == (price * volume) \div FeeScale

Min(a, b) == IF a < b THEN a ELSE b

\* Python truthiness of an Optional[Decimal].
Truthy(x) == x # None /\ Val(x) # 0

\* The part of the engine and its context that executing orders changes.
Books(o, b, t) ==
    [orders |-> o, current_balance |-> b, account_transactions |-> t]

\* The SHORT branch of _execute_order: the loop over the open LONG orders,
\* from the k-th on.
RECURSIVE CloseLongOrders(_, _, _, _, _)
CloseLongOrders(books, long_orders, k, volume_to_close, bar) ==
    IF k > Len(long_orders) \/ volume_to_close <= 0
    THEN [raised |-> FALSE, books |-> books]
    ELSE LET long_order == long_orders[k]
             close_volume == Min(long_order.volume, volume_to_close)
             fees_on_close == Fee(bar.close, close_volume)
             r == close(long_order, bar.timestamp, bar.close, fees_on_close)
             proceeds == bar.close * close_volume - fees_on_close
         IN IF r.raised
            THEN [raised |-> TRUE, books |-> books]
            ELSE CloseLongOrders(
                     Books(save_entity(books.orders, r.order),
                           books.current_balance + proceeds,
                           Append(books.account_transactions,
                                  AccountTransaction(bar.timestamp,
                                      bar.close * close_volume, "CLOSE",
                                      long_order.id))),
                     long_orders, k + 1, volume_to_close - close_volume, bar)

\* Mutant of _execute_order: the ValueError of fill() is caught and the
\* order skipped.
_execute_order_SwallowsFillError(books, o, bar) ==
    LET fill_price == bar.close
        fees_on_fill == Fee(fill_price, o.volume)
    IN IF o.direction = "LONG"
       THEN LET r == fill(o, bar.timestamp, fill_price, fees_on_fill, 0)
                cost == fill_price * o.volume + fees_on_fill
            IN IF r.raised
               THEN [raised |-> FALSE, books |-> books, order |-> r.order]
               ELSE [raised |-> FALSE, order |-> r.order,
                     books |-> Books(
                         save_entity(books.orders, r.order),
                         books.current_balance - cost,
                         Append(books.account_transactions,
                                AccountTransaction(bar.timestamp,
                                    fill_price * o.volume, "FILL", o.id)))]
       ELSE LET isLongOfPair(x) ==
                    /\ x.direction = "LONG"
                    /\ x.trading_pair_code = o.trading_pair_code
                long_orders ==
                    SelectSeq(get_filled_orders(books.orders), isLongOfPair)
                r == CloseLongOrders(books, long_orders, 1, o.volume, bar)
            IN [raised |-> r.raised, books |-> r.books, order |-> o]

_execute_order(books, o, bar) ==
    LET fill_price == bar.close
        fees_on_fill == Fee(fill_price, o.volume)
    IN IF o.direction = "LONG"
       THEN LET r == fill(o, bar.timestamp, fill_price, fees_on_fill, 0)
                cost == fill_price * o.volume + fees_on_fill
            IN IF r.raised
               THEN [raised |-> TRUE, books |-> books, order |-> r.order]
               ELSE [raised |-> FALSE, order |-> r.order,
                     books |-> Books(
                         save_entity(books.orders, r.order),
                         books.current_balance - cost,
                         Append(books.account_transactions,
                                AccountTransaction(bar.timestamp,
                                    fill_price * o.volume, "FILL", o.id)))]
       ELSE LET isLongOfPair(x) ==
                    /\ x.direction = "LONG"
                    /\ x.trading_pair_code = o.trading_pair_code
                long_orders ==
                    SelectSeq(get_filled_orders(books.orders), isLongOfPair)
                r == CloseLongOrders(books, long_orders, 1, o.volume, bar)
            IN [raised |-> r.raised, books |-> r.books, order |-> o]

\* "for order in orders: self._execute_order(order, bar)", from the k-th
\* order on; an exception ends the loop.
RECURSIVE ExecuteOrders(_, _, _, _)
ExecuteOrders(books, intents, k, bar) ==
    IF k > Len(intents)
    THEN [raised |-> FALSE, books |-> books, at |-> 0]
    ELSE LET r == _execute_order(books, intents[k], bar)
         IN IF r.raised
            THEN [raised |-> TRUE, books |-> r.books, at |-> k,
                  order |-> r.order]
            ELSE ExecuteOrders(r.books, intents, k + 1, bar)

_close_order(books, o, exit_price, exit_time) ==
    LET fees_on_close == Fee(exit_price, o.volume)
        r == close(o, exit_time, exit_price, fees_on_close)
    IN IF r.raised
       THEN [raised |-> TRUE, books |-> books]
       ELSE [raised |-> FALSE,
             books |-> Books(
                 save_entity(books.orders, r.order),
                 IF o.direction = "LONG"
                 THEN books.current_balance
                          + (exit_price * o.volume - fees_on_close)
                 ELSE books.current_balance
                          - (exit_price * o.volume + fees_on_close),
                 books.account_transactions)]

\* Mutant of ExitPrice: the take-profit is tested before the stop-loss.
ExitPrice_TakeProfitFirst(o, bar) ==
    IF o.trading_pair_code # bar.symbol THEN None
    ELSE IF Truthy(o.take_profit) /\ bar.high >= Val(o.take_profit)
    THEN o.take_profit
    ELSE IF Truthy(o.stop_loss) /\ bar.low <= Val(o.stop_loss)
    THEN o.stop_loss
    ELSE None

\* The body of the loop of _check_exit_conditions: the price at which the
\* order is closed on this bar, None when it is left open.
ExitPrice(o, bar) ==
    IF o.trading_pair_code # bar.symbol THEN None
    ELSE IF Truthy(o.stop_loss) /\ bar.low <= Val(o.stop_loss)
    THEN o.stop_loss
    ELSE IF Truthy(o.take_profit) /\ bar.high >= Val(o.take_profit)
    THEN o.take_profit
    ELSE None

\* The loop of _check_exit_conditions over the orders that were FILLED when
\* it started, from the k-th on.
RECURSIVE CheckExits(_, _, _, _)
CheckExits(books, filled_orders, k, bar) ==
    IF k > Len(filled_orders)
    THEN [raised |-> FALSE, books |-> books]
    ELSE LET o == filled_orders[k]
             exit_price == ExitPrice(o, bar)
             r == IF exit_price = None
                  THEN [raised |-> FALSE, books |-> books]
                  ELSE _close_order(books, o, Val(exit_price), bar.timestamp)
         IN IF r.raised THEN r
            ELSE CheckExits(r.books, filled_orders, k + 1, bar)

_check_exit_conditions(books, bar) ==
    CheckExits(books, get_filled_orders(books.orders), 1, bar)

\* The loop of _close_all_positions, from the k-th FILLED order on.
RECURSIVE CloseAll(_, _, _, _)
CloseAll(books, filled_orders, k, bar) ==
    IF k > Len(filled_orders)
    THEN [raised |-> FALSE, books |-> books]
    ELSE LET r == _close_order(books, filled_orders[k], bar.close, bar.timestamp)
         IN IF r.raised THEN r
            ELSE CloseAll(r.books, filled_orders, k + 1, bar)

\* Mutant of _close_all_positions: the positions are closed at the final
\* bar's high.
_close_all_positions_AtHigh(books, bar) ==
    IF bar = None
    THEN [raised |-> FALSE, books |-> books]
    ELSE CloseAll(books, get_filled_orders(books.orders), 1,
                  [Val(bar) EXCEPT !.close = Val(bar).high])

_close_all_positions(books, bar) ==
    IF bar = None
    THEN [raised |-> FALSE, books |-> books]
    ELSE CloseAll(books, get_filled_orders(books.orders), 1, Val(bar))

\* Mutant of _record_balance: the snapshot replaces the earlier ones.
_record_balance_Replace(balances, timestamp, balance) ==
    <<AccountBalance(timestamp, balance, balance)>>

_record_balance(balances, timestamp, balance) ==
    Append(balances, AccountBalance(timestamp, balance, balance))

\* What a strategy can return from on_bar: new orders of either direction,
\* with or without stop-loss and take-profit, PENDING or built in another
\* status.
IntentStatus == {"PENDING", "FILLED"}
IntentParams ==
    OrderDirection \X Volumes \X IntentStatus \X Opt(BarPrices) \X Opt(BarPrices)
IntentLists == UNION { [1..n -> IntentParams] : n \in 0..MaxIntents }

Intent(id, x) == TradingOrder(id, Symbol, x[1], x[2], x[3], None, x[4], x[5], None, None)

\* The strategy callbacks and the forced closure, as entries of strategyLog.
Event(name, timestamp) == [event |-> name, timestamp |-> timestamp]

\* The frames run() can be given: with or without a close column, with
\* 0..MaxBars rows.
Frames == [has_close : BOOLEAN, rows : 0..MaxBars]

\* The number of rows the bar loop has taken.
BarsDone == rowsTaken

\* BacktestContext: src/backtest/repositories/context.py.  A configuration
\* repository is the set of the ids it stores.
ConfigRepositories ==
    {"assets", "brokers", "agents", "accounts", "tax_regimes",
     "trading_pairs", "trading_rules", "market_data"}

Entities == 1..MaxEntities

BacktestContext(cfg, o, h, r, b, t) ==
    [ config |-> cfg, orders |-> o, order_history |-> h, backtest_runs |-> r,
      account_balances |-> b, account_transactions |-> t ]

\* The context the engine holds.
Context ==
    BacktestContext(config, orders, order_history, backtest_runs,
                    account_balances, account_transactions)

\* Mutant of reset_runtime_state: the balance snapshots of earlier runs stay.
reset_runtime_state_KeepsBalances(ctx) ==
    BacktestContext(ctx.config, <<>>, <<>>, <<>>, ctx.account_balances, <<>>)

\* Mutant of reset_runtime_state: the configuration is cleared as well.
reset_runtime_state_ClearsConfig(ctx) ==
    BacktestContext([r \in ConfigRepositories |-> {}],
                    <<>>, <<>>, <<>>, <<>>, <<>>)

reset_runtime_state(ctx) ==
    BacktestContext(ctx.config, <<>>, <<>>, <<>>, <<>>, <<>>)

\* The configuration a new engine has: setup_example_configuration stores
\* assets, brokers, trading pairs and trading rules, the constructor adds an
\* agent, a tax regime and an account; no market data is stored.
ExampleConfiguration ==
    [r \in ConfigRepositories |-> IF r = "market_data" THEN {} ELSE {1}]

\* sum(o.net_pnl for o in closed_orders if o.net_pnl)
RECURSIVE SumNetPnl(_)
SumNetPnl(closed) ==
    IF closed = <<>> THEN 0 ELSE closed[1].net_pnl + SumNetPnl(Tail(closed))

RECURSIVE MaxOf(_)
MaxOf(values) ==
    IF Len(values) = 1 THEN values[1]
    ELSE LET m == MaxOf(Tail(values)) IN IF values[1] > m THEN values[1] ELSE m

RECURSIVE MinOf(_)
MinOf(values) ==
    IF Len(values) = 1 THEN values[1]
    ELSE LET m == MinOf(Tail(values)) IN IF values[1] < m THEN values[1] ELSE m

\* The drawdown loop over balance_values from the k-th value on.  A drawdown
\* (peak - value) / peak is kept as the pair <<peak - value, peak>>, and
\* two drawdowns are compared by cross-multiplication; a peak of 0 is a
\* division by zero.
RECURSIVE Drawdown(_, _, _, _)
Drawdown(values, k, peak, max_dd) ==
    IF k > Len(values) THEN [raised |-> FALSE, max_dd |-> max_dd]
    ELSE LET p == IF values[k] > peak THEN values[k] ELSE peak
             dd == <<p - values[k], p>>
             greater ==
                 IF max_dd = <<0, 1>> THEN (dd[1] > 0) = (dd[2] > 0) /\ dd[1] # 0
                 ELSE IF (dd[2] > 0) = (max_dd[2] > 0)
                      THEN dd[1] * max_dd[2] > max_dd[1] * dd[2]
                      ELSE dd[1] * max_dd[2] < max_dd[1] * dd[2]
         IN IF p = 0 THEN [raised |-> TRUE, max_dd |-> max_dd]
            ELSE Drawdown(values, k + 1, p, IF greater THEN dd ELSE max_dd)

\* The metrics run() returns.  total_return and win_rate are functions of
\* entries kept here (final_balance and initial_capital; num_winning_trades
\* and num_trades) and are not kept separately.
_calculate_metrics(balance, capital, all_orders, balances) ==
    LET isClosed(o) == o.status = "CLOSED"
        isFilled(o) == o.status = "FILLED"
        isWinning(o) == o.net_pnl > 0
        closed_orders == SelectSeq(all_orders, isClosed)
        sorted == SortedByTimestamp(balances)
        balance_values == [i \in 1..Len(sorted) |-> sorted[i].total_balance]
        dd == IF Len(balances) > 1
              THEN Drawdown(balance_values, 1, balance_values[1], <<0, 1>>)
              ELSE [raised |-> FALSE, max_dd |-> <<0, 1>>]
    IN [ raised |-> dd.raised,
         metrics |->
           [ initial_capital |-> capital,
             final_balance |-> balance,
             total_pnl |-> SumNetPnl(closed_orders),
             num_trades |-> Len(closed_orders),
             num_open_positions |-> Len(SelectSeq(all_orders, isFilled)),
             num_winning_trades |->
                 IF closed_orders # <<>>
                 THEN Some(Len(SelectSeq(closed_orders, isWinning))) ELSE None,
             max_balance |->
                 IF Len(balances) > 1 THEN Some(MaxOf(balance_values)) ELSE None,
             min_balance |->
                 IF Len(balances) > 1 THEN Some(MinOf(balance_values)) ELSE None,
             max_drawdown |->
                 IF Len(balances) > 1 THEN Some(dd.max_dd) ELSE None ] ]

\* What a strategy returns in a run that is repeated: PENDING orders, with
\* or without a stop-loss.
ReplayIntentParams ==
    OrderDirection \X Volumes \X {"PENDING"} \X Opt(BarPrices) \X {None}
ReplayIntentLists ==
    UNION { [1..n -> ReplayIntentParams] : n \in 0..MaxIntents }

\* Per row of the frame, the strategy's output and the bar's prices.
Scripts == [1..MaxBars -> [xs : ReplayIntentLists, bar : Bars(0)]]

InitEngine ==
    /\ enginePc = "idle"
    /\ initial_capital \in Capitals
    /\ current_balance = initial_capital
    /\ current_bar = None
    /\ orders = <<>>
    /\ account_transactions = <<>>
    /\ account_balances = <<>>
    /\ nextOrderId = 1
    /\ data = None
    /\ strategyLog = <<>>
    /\ raisedOrder = None
    /\ on_bar_result = <<>>
    /\ rowsTaken = 0
    /\ runCalls = 0
    /\ results = <<>>
    /\ script = <<>>
    /\ config = ExampleConfiguration
    /\ order_history = <<>>
    /\ backtest_runs = <<>>

\* run() up to the bar loop: _prepare_data, reset_runtime_state, the balance
\* reset and on_start.  A frame without a close column makes _prepare_data
\* raise.
RunPrologue(frame) ==
    /\ UNCHANGED <<orderVars, balVars, spotVars, chainVars, restVars>>
    /\ UNCHANGED <<current_bar, nextOrderId, initial_capital, results, script>>
    /\ data' = Some(frame)
    /\ runCalls' = runCalls + 1
    /\ IF ~frame.has_close
       THEN /\ enginePc' = "failed"
            /\ UNCHANGED <<current_balance, orders, account_transactions,
                           account_balances, strategyLog, raisedOrder,
                           on_bar_result, rowsTaken, config, order_history,
                           backtest_runs>>
       ELSE LET ctx == reset_runtime_state(Context) IN
            /\ enginePc' = "running"
            /\ config' = ctx.config
            /\ orders' = ctx.orders
            /\ order_history' = ctx.order_history
            /\ backtest_runs' = ctx.backtest_runs
            /\ account_transactions' = ctx.account_transactions
            /\ account_balances' = ctx.account_balances
            /\ current_balance' = initial_capital
            /\ strategyLog' = Append(strategyLog, Event("on_start", 0))
            /\ rowsTaken' = 0
            /\ raisedOrder' = None
            /\ on_bar_result' = <<>>

\* run() called on a new engine.
RunStart ==
    \E frame \in Frames :
        /\ enginePc = "idle"
        /\ RunPrologue(frame)

\* run() called again, with the same frame, on an engine whose run() has
\* returned or raised.
RunAgain ==
    /\ enginePc \in {"ended", "failed"}
    /\ runCalls < MaxRuns
    /\ RunPrologue(Val(data))

\* One iteration of the bar loop: _create_bar_data and _process_bar, for the
\* bar and the orders xs that the strategy returns for it.
ProcessBarWith(xs, bar) ==
        LET intents == [i \in 1..Len(xs) |-> Intent(nextOrderId + i - 1, xs[i])]
            executed == ExecuteOrders(
                            Books(orders, current_balance, account_transactions),
                            intents, 1, bar)
            exited == _check_exit_conditions(executed.books, bar)
            done == IF executed.raised THEN executed ELSE exited
        IN /\ enginePc = "running"
           /\ BarsDone < Val(data).rows
           /\ UNCHANGED <<orderVars, balVars, spotVars, chainVars, restVars>>
           /\ UNCHANGED <<initial_capital, data, runCalls, results, script,
                          config, order_history, backtest_runs>>
           /\ rowsTaken' = rowsTaken + 1
           /\ current_bar' = Some(bar)
           /\ strategyLog' = Append(strategyLog, Event("on_bar", bar.timestamp))
           /\ nextOrderId' = nextOrderId + Len(xs)
           /\ on_bar_result' = intents
           /\ orders' = done.books.orders
           /\ current_balance' = done.books.current_balance
           /\ account_transactions' = done.books.account_transactions
           /\ raisedOrder' =
                  IF executed.raised
                  THEN Some([returned |-> intents[executed.at],
                             left |-> executed.order,
                             first |-> executed.at = 1])
                  ELSE None
           /\ IF done.raised
              THEN /\ enginePc' = "failed"
                   /\ UNCHANGED account_balances
              ELSE /\ enginePc' = "running"
                   /\ account_balances' =
                          _record_balance(account_balances, bar.timestamp,
                                          done.books.current_balance)

\* The bar loop with any bar and any strategy output.
ProcessBar ==
    \E xs \in IntentLists :
    \E bar \in Bars(BarsDone + 1) :
        ProcessBarWith(xs, bar)

\* The bar loop of a run that is repeated: the row's bar and strategy output
\* are those of the script.
ReplayBar ==
    /\ BarsDone < Len(script)
    /\ ProcessBarWith(script[BarsDone + 1].xs,
                      [script[BarsDone + 1].bar EXCEPT !.timestamp = BarsDone + 1])

\* The end of run(): on_end and the forced closure, in the given order (a
\* sequence of event names), then _calculate_metrics.
RunEpilogue(events) ==
    LET closed == _close_all_positions(
                      Books(orders, current_balance, account_transactions),
                      current_bar)
        calculated == _calculate_metrics(closed.books.current_balance,
                                         initial_capital, closed.books.orders,
                                         account_balances)
    IN /\ enginePc = "running"
       /\ BarsDone = Val(data).rows
       /\ UNCHANGED <<orderVars, balVars, spotVars, chainVars, restVars>>
       /\ UNCHANGED <<current_bar, nextOrderId, account_balances,
                      initial_capital, data, raisedOrder, on_bar_result,
                      rowsTaken, runCalls, script, config, order_history,
                      backtest_runs>>
       /\ strategyLog' = strategyLog \o [i \in 1..Len(events) |-> Event(events[i], 0)]
       /\ orders' = closed.books.orders
       /\ current_balance' = closed.books.current_balance
       /\ account_transactions' = closed.books.account_transactions
       /\ IF closed.raised \/ calculated.raised
          THEN /\ enginePc' = "failed"
               /\ UNCHANGED results
          ELSE /\ enginePc' = "ended"
               /\ results' = Append(results, calculated.metrics)

\* Mutant of RunEnd: the positions are closed before on_end is called.
RunEnd_CloseBeforeOnEnd ==
    /\ enginePc = "running"
    /\ RunEpilogue(<<"_close_all_positions", "on_end">>)

\* The end of run(), once the loop has taken every row: on_end,
\* _close_all_positions and _calculate_metrics.
RunEnd ==
    /\ enginePc = "running"
    /\ RunEpilogue(<<"on_end", "_close_all_positions">>)

NextEngine ==
    \/ RunStart
    \/ ProcessBar
    \/ RunEnd

\* Runs that are repeated on the same engine, context and frame.
InitRerun == script \in Scripts

NextRerun ==
    \/ RunStart
    \/ ReplayBar
    \/ RunEnd
    \/ RunAgain

----------------------------------------------------------------------------
(* Order chains: orders constructed with parent_id / root_id (SpotOrder) or
   parent_order_id / root_order_id (TradingOrder) chosen by the caller.  The
   id that uuid4() gives an order is its position in the chain. *)

ChainEntry(kind, o) == [kind |-> kind, order |-> o]

IdOf(e) == e.order.id

ParentOf(e) ==
    IF e.kind = "SpotOrder" THEN e.order.parent_id ELSE e.order.parent_order_id

RootOf(e) ==
    IF e.kind = "SpotOrder" THEN e.order.root_id ELSE e.order.root_order_id

\* The ids a caller can name: none, or the id of an order that exists.
IdArgs(c) == {None} \cup { Some(IdOf(c[i])) : i \in 1..Len(c) }

InitChain == chain = <<>>

NewSpotOrder ==
    \E parent_id \in IdArgs(chain), root_id \in IdArgs(chain) :
        /\ Len(chain) < MaxChain
        /\ UNCHANGED <<orderVars, balVars, spotVars, engineVars, restVars>>
        /\ chain' = Append(chain, ChainEntry("SpotOrder",
               SpotOrder(Len(chain) + 1, parent_id, root_id, "LONG",
                         "PENDING", 1, None, None, None, None, None,
                         None, None, None)))

NewTradingOrder ==
    \E parent_order_id \in IdArgs(chain), root_order_id \in IdArgs(chain) :
        /\ Len(chain) < MaxChain
        /\ UNCHANGED <<orderVars, balVars, spotVars, engineVars, restVars>>
        /\ chain' = Append(chain, ChainEntry("TradingOrder",
               TradingOrder(Len(chain) + 1, "AAPL", "LONG", 1, "PENDING",
                            None, None, None, parent_order_id, root_order_id)))

NextChain ==
    \/ NewSpotOrder
    \/ NewTradingOrder

----------------------------------------------------------------------------
(* Trading rules *)
(***************************************************************************)
(* TradingRules: src/backtest/models/trading_rules.py                      *)
(*                                                                         *)
(* A quotient of two Decimals is kept as the pair <<numerator,             *)
(* denominator>>; the other amounts are pairs with denominator 1.          *)
(***************************************************************************)

LeverageType == {"NO_LEVERAGE", "FLAT_MARGIN_PER_VOLUME", "MARGIN_MULTIPLIER"}

\* Mutant of TradingRules_post_init: the leverage value is not looked at.
TradingRules_post_init_NoLeverageCheck(r) ==
    /\ r.min_volume >= 0
    /\ r.min_notional_amount >= 0
    /\ r.min_margin_amount >= 0
    /\ r.allows_long \/ r.allows_short

\* TradingRules.__post_init__: TRUE when no ValueError is raised.  pair_code
\* and the overnight fields, which no margin computation reads, are left out.
TradingRules_post_init(r) ==
    /\ r.leverage_type = "NO_LEVERAGE" => r.leverage_value = 1
    /\ r.leverage_type = "FLAT_MARGIN_PER_VOLUME" => r.leverage_value > 0
    /\ r.leverage_type = "MARGIN_MULTIPLIER" => r.leverage_value > 0
    /\ r.min_volume >= 0
    /\ r.min_notional_amount >= 0
    /\ r.min_margin_amount >= 0
    /\ r.allows_long \/ r.allows_short

TradingRules(leverage_type, leverage_value, min_volume, min_notional_amount, min_margin_amount, allows_long, allows_short) ==
    [ leverage_type |-> leverage_type,
      leverage_value |-> leverage_value,
      min_volume |-> min_volume,
      min_notional_amount |-> min_notional_amount,
      min_margin_amount |-> min_margin_amount,
      allows_long |-> allows_long,
      allows_short |-> allows_short ]

\* Mutant of calculate_margin_required: the multiplier multiplies.
calculate_margin_required_Multiplies(r, volume, price, contract_size) ==
    LET notional == volume * price * contract_size
    IN IF r.leverage_type = "NO_LEVERAGE"
       THEN [raised |-> FALSE, value |-> <<notional, 1>>]
       ELSE IF r.leverage_type = "FLAT_MARGIN_PER_VOLUME"
       THEN [raised |-> FALSE, value |-> <<volume * r.leverage_value, 1>>]
       ELSE [raised |-> FALSE, value |-> <<notional * r.leverage_value, 1>>]

\* calculate_margin_required; raised is the ZeroDivisionError (or
\* InvalidOperation) of a division by a zero leverage_value.
calculate_margin_required(r, volume, price, contract_size) ==
    LET notional == volume * price * contract_size
    IN IF r.leverage_type = "NO_LEVERAGE"
       THEN [raised |-> FALSE, value |-> <<notional, 1>>]
       ELSE IF r.leverage_type = "FLAT_MARGIN_PER_VOLUME"
       THEN [raised |-> FALSE, value |-> <<volume * r.leverage_value, 1>>]
       ELSE IF r.leverage_type = "MARGIN_MULTIPLIER"
       THEN IF r.leverage_value = 0
            THEN [raised |-> TRUE, value |-> <<0, 1>>]
            ELSE [raised |-> FALSE, value |-> <<notional, r.leverage_value>>]
       ELSE [raised |-> FALSE, value |-> <<notional, 1>>]

\* a < b for an amount a and a quotient b with a positive denominator
LessThanQuotient(a, b) == a * b[2] < b[1]

\* a < b for a quotient a with a positive denominator and an amount b
QuotientLessThan(a, b) == a[1] < b * a[2]

\* Mutant of validate_order: the available margin is checked before the
\* minimum margin.
validate_order_AvailableFirst(r, volume, price, margin, is_long, contract_size) ==
    LET notional == volume * price * contract_size
        required == calculate_margin_required(r, volume, price, contract_size)
    IN IF is_long /\ ~r.allows_long
       THEN [raised |-> FALSE, result |-> <<FALSE, Some("Long positions not allowed")>>]
       ELSE IF ~is_long /\ ~r.allows_short
       THEN [raised |-> FALSE, result |-> <<FALSE, Some("Short positions not allowed")>>]
       ELSE IF volume < r.min_volume
       THEN [raised |-> FALSE, result |-> <<FALSE, Some("Volume below minimum")>>]
       ELSE IF notional < r.min_notional_amount
       THEN [raised |-> FALSE, result |-> <<FALSE, Some("Notional below minimum")>>]
       ELSE IF required.raised
       THEN [raised |-> TRUE, result |-> <<FALSE, None>>]
       ELSE IF LessThanQuotient(margin, required.value)
       THEN [raised |-> FALSE, result |-> <<FALSE, Some("Insufficient margin")>>]
       ELSE IF QuotientLessThan(required.value, r.min_margin_amount)
       THEN [raised |-> FALSE, result |-> <<FALSE, Some("Margin below minimum")>>]
       ELSE [raised |-> FALSE, result |-> <<TRUE, None>>]

\* validate_order: the returned pair (is_valid, error_message).  A message is
\* kept without the numbers that are formatted into it.
validate_order(r, volume, price, margin, is_long, contract_size) ==
    LET notional == volume * price * contract_size
        required == calculate_margin_required(r, volume, price, contract_size)
    IN IF is_long /\ ~r.allows_long
       THEN [raised |-> FALSE, result |-> <<FALSE, Some("Long positions not allowed")>>]
       ELSE IF ~is_long /\ ~r.allows_short
       THEN [raised |-> FALSE, result |-> <<FALSE, Some("Short positions not allowed")>>]
       ELSE IF volume < r.min_volume
       THEN [raised |-> FALSE, result |-> <<FALSE, Some("Volume below minimum")>>]
       ELSE IF notional < r.min_notional_amount
       THEN [raised |-> FALSE, result |-> <<FALSE, Some("Notional below minimum")>>]
       ELSE IF required.raised
       THEN [raised |-> TRUE, result |-> <<FALSE, None>>]
       ELSE IF QuotientLessThan(required.value, r.min_margin_amount)
       THEN [raised |-> FALSE, result |-> <<FALSE, Some("Margin below minimum")>>]
       ELSE IF LessThanQuotient(margin, required.value)
       THEN [raised |-> FALSE, result |-> <<FALSE, Some("Insufficient margin")>>]
       ELSE [raised |-> FALSE, result |-> <<TRUE, None>>]

NoRulesCall ==
    [ op |-> "none", volume |-> 0, price |-> 0, contract_size |-> 1,
      margin |-> 0, is_long |-> TRUE, raised |-> FALSE, result |-> <<>> ]

RuleVolumes == 0..MaxVolume
RulePrices == 0..MaxPrice
ContractSizes == 1..MaxContractSize
Margins == 0..MaxMargin

\* One call is recorded at a time: rulesCall holds the call and what it
\* returned until the caller has read it.
\* The rules that can be constructed: those __post_init__ accepts.
RuleSet ==
    { r \in [ leverage_type : LeverageType,
              leverage_value : 0..MaxLeverage,
              min_volume : 0..MaxVolume,
              min_notional_amount : 0..MaxPrice,
              min_margin_amount : 0..MaxPrice,
              allows_long : BOOLEAN,
              allows_short : BOOLEAN ] : TradingRules_post_init(r) }

InitRules ==
    /\ rules \in RuleSet
    /\ rulesCall = NoRulesCall

CalculateMarginRequired ==
    \E volume \in RuleVolumes, price \in RulePrices, contract_size \in ContractSizes :
        LET r == calculate_margin_required(rules, volume, price, contract_size)
        IN /\ rulesCall.op = "none"
           /\ UNCHANGED <<exceptRules, rules>>
           /\ rulesCall' = [ op |-> "calculate_margin_required", volume |-> volume,
                             price |-> price, contract_size |-> contract_size,
                             margin |-> 0, is_long |-> TRUE,
                             raised |-> r.raised, result |-> r.value ]

ValidateOrder ==
    \E volume \in RuleVolumes, price \in RulePrices, margin \in Margins, is_long \in BOOLEAN, contract_size \in ContractSizes :
        LET r == validate_order(rules, volume, price, margin, is_long, contract_size)
        IN /\ rulesCall.op = "none"
           /\ UNCHANGED <<exceptRules, rules>>
           /\ rulesCall' = [ op |-> "validate_order", volume |-> volume,
                             price |-> price, contract_size |-> contract_size,
                             margin |-> margin, is_long |-> is_long,
                             raised |-> r.raised, result |-> r.result ]

\* The caller has read the returned value; the next call can be made.
RulesReturn ==
    /\ rulesCall.op # "none"
    /\ UNCHANGED <<exceptRules, rules>>
    /\ rulesCall' = NoRulesCall

NextRules ==
    \/ CalculateMarginRequired
    \/ ValidateOrder
    \/ RulesReturn

-----------------------------------------------------------------------------
(* Market data *)
(***************************************************************************)
(* MarketDataRepository:                                                   *)
(* src/backtest/repositories/market_data_repository.py                     *)
(***************************************************************************)

\* _make_key: f"{symbol}_{timeframe_code}"
_make_key(symbol, timeframe_code) == symbol \o "_" \o timeframe_code

\* self._data.get(key, [])
BarsUnder(d, key) == IF key \in DOMAIN d THEN d[key] ELSE <<>>

\* self._data[key] = bars
SetBars(d, key, bars) ==
    [k \in DOMAIN d \cup {key} |-> IF k = key THEN bars ELSE d[k]]

\* bars.insert(i, bar)
InsertAt(bars, i, bar) ==
    SubSeq(bars, 1, i - 1) \o <<bar>> \o SubSeq(bars, i, Len(bars))

\* The loop of save_bar from the i-th held bar on: the bar with the same
\* timestamp is replaced, or the bar is put before the first later one, or
\* at the end.
RECURSIVE PlaceBar(_, _, _)
PlaceBar(bars, i, bar) ==
    IF i > Len(bars) THEN Append(bars, bar)
    ELSE IF bars[i].timestamp = bar.timestamp THEN [bars EXCEPT ![i] = bar]
    ELSE IF bars[i].timestamp > bar.timestamp THEN InsertAt(bars, i, bar)
    ELSE PlaceBar(bars, i + 1, bar)

\* Mutant of save_bar: a bar with a new timestamp goes to the end.
save_bar_Appends(d, bar) ==
    LET key == _make_key(bar.symbol, bar.timeframe)
        bars == BarsUnder(d, key)
        same == { i \in 1..Len(bars) : bars[i].timestamp = bar.timestamp }
    IN SetBars(d, key,
               IF same = {} THEN Append(bars, bar)
               ELSE [bars EXCEPT ![CHOOSE i \in same : TRUE] = bar])

save_bar(d, bar) ==
    LET key == _make_key(bar.symbol, bar.timeframe)
    IN SetBars(d, key, PlaceBar(BarsUnder(d, key), 1, bar))

RECURSIVE save_bars(_, _)
save_bars(d, bars) ==
    IF bars = <<>> THEN d ELSE save_bars(save_bar(d, bars[1]), Tail(bars))

\* Symbols and timeframe codes; two of the pairs have the same key.
MarketSymbols == {"A", "A_B"}
TimeframeCodes == {"1h", "B_1h"}

\* The bars given to the repository: timeframe is the timeframe's code, and
\* close stands for the prices.
MarketBars ==
    [ symbol : MarketSymbols, timeframe : TimeframeCodes,
      timestamp : 1..MaxStamp, close : 1..MaxPrice ]

BarBatches == UNION { [1..n -> MarketBars] : n \in 0..MaxBatch }

\* len(bars) summed over the keys
RECURSIVE HeldUnder(_, _)
HeldUnder(d, keys) ==
    IF keys = {} THEN 0
    ELSE LET k == CHOOSE k \in keys : TRUE
         IN Len(d[k]) + HeldUnder(d, keys \ {k})

Held(d) == HeldUnder(d, DOMAIN d)

NoMarketCall == [op |-> "none", bars |-> <<>>]

InitMarket ==
    /\ _data = <<>>
    /\ marketCall = NoMarketCall

MarketIdle == InitMarket

SaveBar ==
    \E bar \in MarketBars :
        /\ marketCall.op = "none"
        /\ Held(save_bar(_data, bar)) <= MaxHeld
        /\ UNCHANGED exceptMarket
        /\ _data' = save_bar(_data, bar)
        /\ marketCall' = [op |-> "save_bar", bars |-> <<bar>>]

SaveBars ==
    \E bars \in BarBatches :
        /\ marketCall.op = "none"
        /\ Held(save_bars(_data, bars)) <= MaxHeld
        /\ UNCHANGED exceptMarket
        /\ _data' = save_bars(_data, bars)
        /\ marketCall' = [op |-> "save_bars", bars |-> bars]

MarketClear ==
    /\ marketCall.op = "none"
    /\ UNCHANGED exceptMarket
    /\ _data' = <<>>
    /\ marketCall' = [op |-> "clear", bars |-> <<>>]

\* The call has returned; the next call can be made.
MarketReturn ==
    /\ marketCall.op # "none"
    /\ UNCHANGED <<exceptMarket, _data>>
    /\ marketCall' = NoMarketCall

NextMarket ==
    \/ SaveBar
    \/ SaveBars
    \/ MarketClear
    \/ MarketReturn

-----------------------------------------------------------------------------
(* Assets *)
(***************************************************************************)
(* AssetRepository: src/backtest/repositories/entity_repositories.py, on   *)
(* InMemoryRepository: src/backtest/repositories/base.py.  A dict is a     *)
(* function on its keys.                                                   *)
(***************************************************************************)

AssetIds == 1..MaxAssets
Tickers == {"BTC", "USD"}

\* Asset: its id and its ticker; the other fields are not read by the
\* repository.
Asset(id, ticker) == [id |-> id, ticker |-> ticker]
Assets == { Asset(id, ticker) : id \in AssetIds, ticker \in Tickers }

\* d[key] = value
DictSet(d, key, value) ==
    [k \in DOMAIN d \cup {key} |-> IF k = key THEN value ELSE d[k]]

\* del d[key]
DictDel(d, key) == [k \in DOMAIN d \ {key} |-> d[k]]

\* d.get(key)
DictGet(d, key) == IF key \in DOMAIN d THEN Some(d[key]) ELSE None

\* AssetRepository.get_by_ticker
get_by_ticker(st, idx, ticker) ==
    LET asset_id == DictGet(idx, ticker)
    IN IF asset_id # None THEN DictGet(st, Val(asset_id)) ELSE None

InitAssets ==
    /\ asset_storage = <<>>
    /\ _ticker_index = <<>>

AssetsIdle == InitAssets

\* AssetRepository.save: InMemoryRepository.save, then the index entry.
AssetSave ==
    \E entity \in Assets :
        /\ UNCHANGED exceptAssets
        /\ asset_storage' = DictSet(asset_storage, entity.id, entity)
        /\ _ticker_index' = DictSet(_ticker_index, entity.ticker, entity.id)

\* InMemoryRepository.delete, which AssetRepository inherits.
AssetDelete ==
    \E entity_id \in AssetIds :
        /\ UNCHANGED exceptAssets
        /\ asset_storage' = IF entity_id \in DOMAIN asset_storage
                            THEN DictDel(asset_storage, entity_id)
                            ELSE asset_storage
        /\ UNCHANGED _ticker_index

\* AssetRepository.clear
AssetClear ==
    /\ UNCHANGED exceptAssets
    /\ asset_storage' = <<>>
    /\ _ticker_index' = <<>>

NextAssets ==
    \/ AssetSave
    \/ AssetDelete
    \/ AssetClear

-----------------------------------------------------------------------------
(* Context *)
(***************************************************************************)
(* BacktestContext used on its own:                                        *)
(* src/backtest/repositories/context.py.  The repositories are those of    *)
(* the engine's context; here an entity is its id.                         *)
(***************************************************************************)

RuntimeRepositories ==
    {"orders", "order_history", "backtest_runs", "account_balances",
     "account_transactions"}

\* The engine's variables that are not repositories of the context.
engineOwn ==
    <<enginePc, current_balance, current_bar, nextOrderId, initial_capital,
      data, strategyLog, raisedOrder, on_bar_result, rowsTaken, runCalls,
      results, script>>

NoContextCall == [op |-> "none", before |-> <<>>]

\* InMemoryRepository.save on a repository kept in insertion order.
SaveIn(entities, entity) ==
    IF \E i \in 1..Len(entities) : entities[i] = entity THEN entities
    ELSE Append(entities, entity)

\* BacktestContext.reset_all
reset_all(ctx) ==
    reset_runtime_state(
        BacktestContext([r \in ConfigRepositories |-> {}], ctx.orders,
                        ctx.order_history, ctx.backtest_runs,
                        ctx.account_balances, ctx.account_transactions))

\* The context is the one a new engine holds; no call was made on it.
InitContext == contextCall = NoContextCall

ContextIdle == InitContext

\* The context becomes ctx.
ContextBecomes(ctx) ==
    /\ UNCHANGED <<orderVars, balVars, spotVars, chainVars, othersContext, engineOwn>>
    /\ config' = ctx.config
    /\ orders' = ctx.orders
    /\ order_history' = ctx.order_history
    /\ backtest_runs' = ctx.backtest_runs
    /\ account_balances' = ctx.account_balances
    /\ account_transactions' = ctx.account_transactions

\* save on a configuration repository of the context
SaveConfiguration ==
    \E r \in ConfigRepositories, entity \in Entities :
        /\ ContextBecomes([Context EXCEPT !.config[r] = @ \cup {entity}])
        /\ contextCall' = [op |-> "save", before |-> <<>>]

\* save on a runtime repository of the context
SaveRuntime ==
    \E r \in RuntimeRepositories, entity \in Entities :
        /\ ContextBecomes([Context EXCEPT ![r] = SaveIn(@, entity)])
        /\ contextCall' = [op |-> "save", before |-> <<>>]

ResetRuntimeState ==
    /\ ContextBecomes(reset_runtime_state(Context))
    /\ contextCall' = [op |-> "reset_runtime_state", before |-> Context]

ResetAll ==
    /\ ContextBecomes(reset_all(Context))
    /\ contextCall' = [op |-> "reset_all", before |-> Context]

NextContext ==
    \/ SaveConfiguration
    \/ SaveRuntime
    \/ ResetRuntimeState
    \/ ResetAll

-----------------------------------------------------------------------------
(* Transactions *)
(***************************************************************************)
(* TransactionRepository:                                                  *)
(* src/backtest/repositories/transaction_repository.py, and the            *)
(* reconciliation steps of src/examples/transaction_balance_system.py.     *)
(***************************************************************************)

LedgerAccounts == {"A1", "A2"}

\* A Transaction with the fields the repository reads.
LedgerTransaction(transaction_id, account_id, backtest_run_id, timestamp, deltas) ==
    [ transaction_id |-> transaction_id,
      account_id |-> account_id,
      backtest_run_id |-> backtest_run_id,
      timestamp |-> timestamp,
      available_balance_change |-> deltas.available_balance_change,
      unavailable_balance_change |-> deltas.unavailable_balance_change ]

\* TransactionRepository.save: _storage[transaction_id] = entity
tx_save(st, entity) ==
    IF \E i \in 1..Len(st) : st[i].transaction_id = entity.transaction_id
    THEN [i \in 1..Len(st) |->
             IF st[i].transaction_id = entity.transaction_id THEN entity ELSE st[i]]
    ELSE Append(st, entity)

\* TransactionRepository.delete
tx_delete(st, transaction_id) ==
    LET other(t) == t.transaction_id # transaction_id
    IN Filter(st, other)

RECURSIVE DeleteEach(_, _)
DeleteEach(st, to_delete) ==
    IF to_delete = <<>> THEN st
    ELSE DeleteEach(tx_delete(st, to_delete[1].transaction_id), Tail(to_delete))

\* Mutant of tx_clear_run: the transactions of the other runs go as well.
tx_clear_run_Everything(st, backtest_run_id) ==
    LET ofRun(t) == t.backtest_run_id = backtest_run_id
    IN [storage |-> <<>>, deleted |-> Len(Filter(st, ofRun))]

\* TransactionRepository.clear_run: the storage after it and the number it
\* returns.
tx_clear_run(st, backtest_run_id) ==
    LET ofRun(t) == t.backtest_run_id = backtest_run_id
        to_delete == Filter(st, ofRun)
    IN [storage |-> DeleteEach(st, to_delete), deleted |-> Len(to_delete)]

\* TransactionRepository.get_since_timestamp
get_since_timestamp(st, account_id, since_timestamp) ==
    LET later(t) == t.account_id = account_id /\ t.timestamp > since_timestamp
    IN SortedByTimestamp(Filter(st, later))

NoLedgerCall ==
    [op |-> "none", raised |-> FALSE, run |-> 0, deleted |-> 0, prior |-> None]

InitLedger ==
    /\ tx_storage = <<>>
    /\ nextTxId = 1
    /\ now = 0
    /\ ledgerCall = NoLedgerCall

LedgerIdle == InitLedger

\* Transaction(...) with a new transaction_id and the current time, then
\* transaction_repo.save.
SaveTransaction ==
    \E a \in LedgerAccounts, r \in Runs, deltas \in Transactions :
        /\ nextTxId <= MaxLedger
        /\ UNCHANGED <<exceptLedger, now>>
        /\ tx_storage' = tx_save(tx_storage, LedgerTransaction(nextTxId, a, r, now, deltas))
        /\ nextTxId' = nextTxId + 1
        /\ ledgerCall' = [NoLedgerCall EXCEPT !.op = "save", !.run = r]

TransactionClearRun ==
    \E r \in Runs :
        LET out == tx_clear_run(tx_storage, r)
        IN /\ UNCHANGED <<exceptLedger, now, nextTxId>>
           /\ tx_storage' = out.storage
           /\ ledgerCall' = [NoLedgerCall EXCEPT
                                !.op = "clear_run", !.run = r,
                                !.deleted = out.deleted]

\* Balance(...) of a run with a new balance_id, then balance_repo.save.
SaveRunBalance ==
    \E r \in Runs :
        LET b == Balance(nextBalanceId, "A1", r, now, 1, 0)
        IN /\ nextBalanceId <= MaxStored
           /\ UNCHANGED <<orderVars, spotVars, engineVars, chainVars, restVars>>
           /\ storage' = save(storage, b)
           /\ nextBalanceId' = nextBalanceId + 1
           /\ balCall' = [NoBalCall EXCEPT
                             !.op = "save", !.ctor = Some(<<1, 0>>),
                             !.result = Some(b)]

\* The account and the run whose balance is reconciled step by step.
ProtocolAccount == "A1"
ProtocolRun == 1

\* The snapshot the protocol starts from.
initial_balance == Balance(1, ProtocolAccount, ProtocolRun, 0, MaxAmount, 0)

\* Time passes.
Tick ==
    /\ now < MaxClock
    /\ UNCHANGED <<exceptLedger, tx_storage, nextTxId, ledgerCall>>
    /\ now' = now + 1

\* One reconciliation step: the latest snapshot is the prior balance, the
\* transactions are those get_since_timestamp returns for its timestamp,
\* and the new snapshot is made at the current time.
ReconcileStep ==
    LET prior == get_latest_balance(storage, ProtocolAccount, ProtocolRun)
        transactions == get_since_timestamp(tx_storage, ProtocolAccount, Val(prior).timestamp)
        out == reconcile_balance(storage, nextBalanceId, ProtocolAccount, ProtocolRun, now, transactions, prior)
    IN /\ prior # None
       /\ nextBalanceId <= MaxSnapshots
       /\ UNCHANGED <<orderVars, spotVars, engineVars, chainVars, othersLedger>>
       /\ UNCHANGED <<tx_storage, nextTxId, now>>
       /\ storage' = out.storage
       /\ nextBalanceId' = IF out.raised THEN nextBalanceId ELSE nextBalanceId + 1
       /\ balCall' = [NoBalCall EXCEPT
                         !.op = "reconcile_balance", !.raised = out.raised,
                         !.prior = prior, !.txs = transactions,
                         !.result = out.result]
       /\ ledgerCall' = [NoLedgerCall EXCEPT
                            !.op = "reconcile", !.raised = out.raised,
                            !.prior = prior]

\* The protocol starts with the initial snapshot saved.
InitProtocol ==
    /\ storage = <<initial_balance>>
    /\ nextBalanceId = 2
    /\ balCall = NoBalCall

NextProtocol ==
    \/ SaveTransaction
    \/ Tick
    \/ ReconcileStep

\* The two repositories and their clear_run.
NextRuns ==
    \/ SaveTransaction
    \/ TransactionClearRun
    \/ SaveRunBalance
    \/ ClearRun

-----------------------------------------------------------------------------
(* Portfolio *)
(***************************************************************************)
(* Portfolio, Order and Position: src/backtest/core/portfolio.py,          *)
(* src/backtest/core/order.py, src/backtest/core/position.py.              *)
(*                                                                         *)
(* Prices and money are floats in the source; here they are whole numbers  *)
(* of halves, on which the source's arithmetic is exact.  An average price *)
(* or a profit, which is a quotient, is the pair <<numerator,              *)
(* denominator>>.                                                          *)
(***************************************************************************)

OrderSide == {"BUY", "SELL"}

\* Order.__init__
Order(symbol, side, quantity) ==
    [ symbol |-> symbol, side |-> side, quantity |-> quantity,
      status |-> "PENDING", filled_quantity |-> 0, filled_price |-> None ]

\* Order.reject
reject(o) == [o EXCEPT !.status = "REJECTED"]

\* Order.fill of an order that has no fill yet, or that has its whole
\* quantity filled (execute_order fills whole orders only).
Order_fill(o, quantity, price) ==
    IF quantity > o.quantity - o.filled_quantity
    THEN [raised |-> TRUE, order |-> o]
    ELSE LET filled == o.filled_quantity + quantity
         IN [raised |-> FALSE,
             order |-> [o EXCEPT
                          !.filled_price = Some(price),
                          !.filled_quantity = filled,
                          !.status = IF filled >= o.quantity THEN "FILLED"
                                     ELSE "PARTIALLY_FILLED"]]

\* Position.__init__
Position(quantity, entry_price) ==
    [ quantity |-> quantity, entry_price |-> <<entry_price, 1>>,
      realized_pnl |-> <<0, 1>> ]

\* a/b + c/d
QuotientSum(x, y) == <<x[1] * y[2] + y[1] * x[2], x[2] * y[2]>>

\* Position.add_shares, for a long position and a positive quantity
add_shares(p, quantity, price) ==
    LET total_cost == QuotientSum(<<p.entry_price[1] * p.quantity, p.entry_price[2]>>,
                                  <<price * quantity, 1>>)
    IN [p EXCEPT !.quantity = p.quantity + quantity,
                 !.entry_price = <<total_cost[1], total_cost[2] * (p.quantity + quantity)>>]

\* Position.close_shares, for a long position: the position after it and
\* the profit it returns.
close_shares(p, quantity, price) ==
    LET pnl == <<(price * p.entry_price[2] - p.entry_price[1]) * quantity, p.entry_price[2]>>
    IN [position |-> [p EXCEPT !.quantity = p.quantity - quantity,
                               !.realized_pnl = QuotientSum(p.realized_pnl, pnl)],
        pnl |-> pnl]

\* The portfolio as one value.
PortfolioState(c, com, pos, history, closed) ==
    [ cash |-> c, commission |-> com, positions |-> pos,
      transaction_history |-> history, closed_positions |-> closed ]

\* Portfolio._calculate_commission
_calculate_commission(pf, transaction_value) ==
    IF pf.commission < 1 * CashScale
    THEN (transaction_value * pf.commission) \div CashScale
    ELSE pf.commission

\* Portfolio._record_transaction
_record_transaction(pf, side, quantity, price, commission_cost, cash_flow, realized_pnl) ==
    [pf EXCEPT !.transaction_history =
        Append(@, [ side |-> side, quantity |-> quantity, price |-> price,
                    commission |-> commission_cost, cash_flow |-> cash_flow,
                    realized_pnl |-> realized_pnl, cash_balance |-> pf.cash ])]

\* Portfolio._execute_buy
_execute_buy(pf, o, fill_price, commission_cost) ==
    LET total_cost == fill_price * o.quantity + commission_cost
        paid == [pf EXCEPT !.cash = @ - total_cost]
        held == [paid EXCEPT !.positions =
                    IF o.symbol \in DOMAIN pf.positions
                    THEN DictSet(@, o.symbol, add_shares(@[o.symbol], o.quantity, fill_price))
                    ELSE DictSet(@, o.symbol, Position(o.quantity, fill_price))]
    IN _record_transaction(held, "BUY", o.quantity, fill_price, commission_cost,
                           0 - total_cost, <<0, 1>>)

\* Portfolio._execute_sell: raised when there is no position or not enough
\* of it.
_execute_sell(pf, o, fill_price, commission_cost) ==
    IF o.symbol \notin DOMAIN pf.positions
    THEN [raised |-> TRUE, portfolio |-> pf]
    ELSE IF o.quantity > pf.positions[o.symbol].quantity
    THEN [raised |-> TRUE, portfolio |-> pf]
    ELSE LET sold == close_shares(pf.positions[o.symbol], o.quantity, fill_price)
             proceeds == fill_price * o.quantity - commission_cost
             paid == [pf EXCEPT !.cash = @ + proceeds]
             held == IF sold.position.quantity = 0
                     THEN [paid EXCEPT
                             !.positions = DictDel(@, o.symbol),
                             !.closed_positions = Append(@, sold.position)]
                     ELSE [paid EXCEPT
                             !.positions = DictSet(@, o.symbol, sold.position)]
         IN [raised |-> FALSE,
             portfolio |-> _record_transaction(held, "SELL", o.quantity, fill_price,
                                               commission_cost, proceeds, sold.pnl)]

\* Mutant of execute_order: an order that costs more than the cash is
\* executed like any other.
execute_order_NoCashCheck(pf, o, fill_price) ==
    LET transaction_value == fill_price * o.quantity
        commission_cost == _calculate_commission(pf, transaction_value)
        done == IF o.side = "BUY"
                THEN [raised |-> FALSE,
                      portfolio |-> _execute_buy(pf, o, fill_price, commission_cost)]
                ELSE _execute_sell(pf, o, fill_price, commission_cost)
        filled == Order_fill(o, o.quantity, fill_price)
    IN IF done.raised \/ filled.raised
       THEN [result |-> FALSE, order |-> reject(o), portfolio |-> done.portfolio]
       ELSE [result |-> TRUE, order |-> filled.order, portfolio |-> done.portfolio]

\* Portfolio.execute_order: what it returns, the order and the portfolio
\* after it.
execute_order(pf, o, fill_price) ==
    LET transaction_value == fill_price * o.quantity
        commission_cost == _calculate_commission(pf, transaction_value)
        total_cost == transaction_value + commission_cost
        done == IF o.side = "BUY"
                THEN [raised |-> FALSE,
                      portfolio |-> _execute_buy(pf, o, fill_price, commission_cost)]
                ELSE _execute_sell(pf, o, fill_price, commission_cost)
        filled == Order_fill(o, o.quantity, fill_price)
    IN IF o.side = "BUY" /\ pf.cash < total_cost
       THEN [result |-> FALSE, order |-> reject(o), portfolio |-> pf]
       ELSE IF done.raised \/ filled.raised
       THEN [result |-> FALSE, order |-> reject(o), portfolio |-> done.portfolio]
       ELSE [result |-> TRUE, order |-> filled.order, portfolio |-> done.portfolio]

\* The portfolio of the state.
ThePortfolio ==
    PortfolioState(cash, commission, positions, transaction_history, closed_positions)

NoPortfolioCall ==
    [op |-> "none", fill_price |-> 0, given |-> None, result |-> FALSE, before |-> None]

\* Portfolio.__init__
InitPortfolio ==
    /\ cash \in { c * CashScale : c \in 0..MaxCash }
    /\ commission \in 0..(MaxCommission * CashScale)
    /\ positions = <<>>
    /\ transaction_history = <<>>
    /\ closed_positions = <<>>
    /\ portfolioOrder = None
    /\ portfolioCall = NoPortfolioCall

PortfolioIdle ==
    /\ cash = 0
    /\ commission = 0
    /\ positions = <<>>
    /\ transaction_history = <<>>
    /\ closed_positions = <<>>
    /\ portfolioOrder = None
    /\ portfolioCall = NoPortfolioCall

\* The orders given to execute_order: a new order, or the order given last.
OrdersToExecute ==
    { Order(Symbol, side, quantity) : side \in OrderSide, quantity \in Volumes }
        \cup (IF portfolioOrder = None THEN {} ELSE {Val(portfolioOrder)})

ExecuteOrder ==
    \E o \in OrdersToExecute, p \in Prices :
        LET out == execute_order(ThePortfolio, o, p * CashScale)
        IN /\ Len(transaction_history) < MaxExecuted
           /\ UNCHANGED <<exceptPortfolio, commission>>
           /\ cash' = out.portfolio.cash
           /\ positions' = out.portfolio.positions
           /\ transaction_history' = out.portfolio.transaction_history
           /\ closed_positions' = out.portfolio.closed_positions
           /\ portfolioOrder' = Some(out.order)
           /\ portfolioCall' = [ op |-> "execute_order", fill_price |-> p * CashScale,
                                 given |-> Some(o), result |-> out.result,
                                 before |-> Some(ThePortfolio) ]

NextPortfolio == ExecuteOrder

-----------------------------------------------------------------------------
(* SpotOrderRepository *)
(***************************************************************************)
(* SpotOrderRepository: src/backtest/repositories/spot_order_repository.py *)
(* on InMemoryRepository (src/backtest/repositories/base.py), used as      *)
(* src/examples/spot_order_lifecycle.py uses it: a pending order is        *)
(* constructed and saved, then copies are made from records and saved.     *)
(* Originals are constructed in the order of their ids, so an id also      *)
(* stands for the create_timestamp, which a copy keeps.                    *)
(***************************************************************************)

\* An object constructed by the caller: the order and the index in made of
\* the object it was copied from (0 for an original).
Made(o, from) == [order |-> o, from |-> from]

Originals(m) == { i \in 1..Len(m) : m[i].from = 0 }

\* sorted(..., key=lambda o: o.create_timestamp) over the values of the dict.
RECURSIVE ByCreateTimestamp(_, _)
ByCreateTimestamp(st, ids) ==
    IF ids = {} THEN <<>>
    ELSE LET first == CHOOSE i \in ids : \A j \in ids : i <= j
         IN <<st[first]>> \o ByCreateTimestamp(st, ids \ {first})

get_by_root_id(st, root_id) ==
    ByCreateTimestamp(st, { i \in DOMAIN st : st[i].root_id = Some(root_id) })

InitBook ==
    /\ spot_storage = <<>>
    /\ made = <<>>

BookIdle == InitBook

\* spot_order_lifecycle.py: SpotOrder(status=PENDING, ...) and save.
SaveOriginal ==
    /\ Len(made) < MaxMade
    /\ Cardinality(Originals(made)) < MaxOriginals
    /\ \E d \in OrderDirection, v \in Volumes :
          LET o == SpotOrder(Cardinality(Originals(made)) + 1, None, None, d,
                             "PENDING", v, None, None, None, None, None,
                             None, None, None) IN
          /\ made' = Append(made, Made(o, 0))
          /\ spot_storage' = DictSet(spot_storage, o.id, o)
    /\ UNCHANGED exceptBook

\* spot_order_lifecycle.py: create_filled_copy of an object and save of the
\* copy; a call that raises saves nothing.
SaveFilledCopy ==
    /\ Len(made) < MaxMade
    /\ \E i \in 1..Len(made), ts \in Times, p \in Prices, fv \in VolumeArgs,
          fee \in SpotFeeArgs :
          LET r == create_filled_copy(made[i].order, ts, p, fv, fee) IN
          /\ ~r.raised
          /\ made' = Append(made, Made(Val(r.result), i))
          /\ spot_storage' = DictSet(spot_storage, Val(r.result).id, Val(r.result))
    /\ UNCHANGED exceptBook

SaveCancelledCopy ==
    /\ Len(made) < MaxMade
    /\ \E i \in 1..Len(made), ts \in Times, cv \in VolumeArgs,
          fee \in SpotFeeArgs :
          LET r == create_cancelled_copy(made[i].order, ts, cv, fee) IN
          /\ ~r.raised
          /\ made' = Append(made, Made(Val(r.result), i))
          /\ spot_storage' = DictSet(spot_storage, Val(r.result).id, Val(r.result))
    /\ UNCHANGED exceptBook

NextBook ==
    \/ SaveOriginal
    \/ SaveFilledCopy
    \/ SaveCancelledCopy

-----------------------------------------------------------------------------
(* EventHandler *)
(***************************************************************************)
(* EventHandler: src/backtest/core/event_handler.py.  The program is       *)
(* single-threaded: while emit runs, the only calls on the handler are     *)
(* those the invoked callbacks make.  emit's for loop is Python's list     *)
(* iterator over the live list: it keeps an index, yields the element at   *)
(* the index while the index is below the list's current length, and       *)
(* stops otherwise.                                                        *)
(***************************************************************************)

EventType ==
    {"bar", "order_filled", "order_rejected", "position_opened", "position_closed"}

Callbacks == 1..MaxCallbacks

\* list.remove: the first occurrence goes.
RECURSIVE ListRemove(_, _)
ListRemove(list, x) ==
    IF list = <<>> THEN <<>>
    ELSE IF Head(list) = x THEN Tail(list)
    ELSE <<Head(list)>> \o ListRemove(Tail(list), x)

Contains(list, x) == \E i \in 1..Len(list) : list[i] = x

subscribe(subs, event_type, callback) ==
    [subs EXCEPT ![event_type] = Append(subs[event_type], callback)]

unsubscribe(subs, event_type, callback) ==
    IF Contains(subs[event_type], callback)
    THEN [subs EXCEPT ![event_type] = ListRemove(subs[event_type], callback)]
    ELSE subs

clear(subs) == [event_type \in DOMAIN subs |-> <<>>]

RECURSIVE SubscribedOver(_, _)
SubscribedOver(subs, types) ==
    IF types = {} THEN 0
    ELSE LET t == CHOOSE x \in types : TRUE
         IN Len(subs[t]) + SubscribedOver(subs, types \ {t})

Subscribed(subs) == SubscribedOver(subs, DOMAIN subs)

NoEmitCall ==
    [pc |-> "none", event_type |-> "bar", index |-> 0, at_start |-> <<>>,
     invoked |-> <<>>]

\* EventHandler.__init__
InitEvents ==
    /\ _subscribers = [event_type \in EventType |-> <<>>]
    /\ emitCall = NoEmitCall

EventsIdle == InitEvents

Subscribe ==
    /\ emitCall.pc # "running"
    /\ Subscribed(_subscribers) < MaxSubscribed
    /\ \E t \in EventType, cb \in Callbacks :
          _subscribers' = subscribe(_subscribers, t, cb)
    /\ UNCHANGED emitCall
    /\ UNCHANGED exceptEvents

Unsubscribe ==
    /\ emitCall.pc # "running"
    /\ \E t \in EventType, cb \in Callbacks :
          _subscribers' = unsubscribe(_subscribers, t, cb)
    /\ UNCHANGED emitCall
    /\ UNCHANGED exceptEvents

Clear ==
    /\ emitCall.pc # "running"
    /\ _subscribers' = clear(_subscribers)
    /\ UNCHANGED emitCall
    /\ UNCHANGED exceptEvents

\* emit is called: the for loop takes an iterator over the list.
EmitStart ==
    /\ emitCall.pc # "running"
    /\ \E t \in EventType :
          emitCall' = [pc |-> "running", event_type |-> t, index |-> 0,
                       at_start |-> _subscribers[t], invoked |-> <<>>]
    /\ UNCHANGED _subscribers
    /\ UNCHANGED exceptEvents

\* What an invoked callback does to the handler: nothing, or it
\* unsubscribes itself or another callback from an event type.
CallbackBody(subs) ==
    {subs} \cup { unsubscribe(subs, t, cb) : t \in EventType, cb \in Callbacks }

\* One turn of emit's loop: the iterator yields the next callback and the
\* callback runs.
EmitInvoke ==
    /\ emitCall.pc = "running"
    /\ emitCall.index < Len(_subscribers[emitCall.event_type])
    /\ LET callback == _subscribers[emitCall.event_type][emitCall.index + 1] IN
       /\ _subscribers' \in CallbackBody(_subscribers)
       /\ emitCall' = [emitCall EXCEPT !.index = emitCall.index + 1,
                                       !.invoked = Append(emitCall.invoked, callback)]
    /\ UNCHANGED exceptEvents

\* The iterator is exhausted: emit returns.
EmitReturn ==
    /\ emitCall.pc = "running"
    /\ emitCall.index >= Len(_subscribers[emitCall.event_type])
    /\ emitCall' = [emitCall EXCEPT !.pc = "returned"]
    /\ UNCHANGED _subscribers
    /\ UNCHANGED exceptEvents

NextEvents ==
    \/ Subscribe
    \/ Unsubscribe
    \/ Clear
    \/ EmitStart
    \/ EmitInvoke
    \/ EmitReturn

-----------------------------------------------------------------------------
(* Specifications *)

OrderIdle ==
    /\ order = TradingOrder(1, "AAPL", "LONG", 1, "PENDING", None, None, None, None, None)
    /\ orderCall = NoCall

SpotIdle ==
    /\ spot = SpotOrder(1, None, None, "LONG", "PENDING", 1, None, None, None,
                        None, None, None, None, None)
    /\ spotCall = NoSpotCall

\* The engine as constructed with its default capital, never run.
EngineIdle == InitEngine /\ initial_capital = InitialCapital * FeeScale

CoreIdle == OrderIdle /\ InitBalance /\ SpotIdle /\ EngineIdle /\ InitChain

RulesIdle ==
    /\ rules = TradingRules("NO_LEVERAGE", 1, 0, 0, 0, TRUE, FALSE)
    /\ rulesCall = NoRulesCall

RestIdle == RulesIdle /\ MarketIdle /\ AssetsIdle /\ ContextIdle /\ LedgerIdle /\ PortfolioIdle /\ BookIdle /\ EventsIdle

InitRulesRun == CoreIdle /\ InitRules /\ MarketIdle /\ AssetsIdle /\ ContextIdle /\ LedgerIdle /\ PortfolioIdle /\ BookIdle /\ EventsIdle
InitMarketRun == CoreIdle /\ RulesIdle /\ InitMarket /\ AssetsIdle /\ ContextIdle /\ LedgerIdle /\ PortfolioIdle /\ BookIdle /\ EventsIdle
InitAssetsRun == CoreIdle /\ RulesIdle /\ MarketIdle /\ InitAssets /\ ContextIdle /\ LedgerIdle /\ PortfolioIdle /\ BookIdle /\ EventsIdle
InitContextRun == CoreIdle /\ RulesIdle /\ MarketIdle /\ AssetsIdle /\ InitContext /\ LedgerIdle /\ PortfolioIdle /\ BookIdle /\ EventsIdle
InitRunsRun == CoreIdle /\ RulesIdle /\ MarketIdle /\ AssetsIdle /\ ContextIdle /\ InitLedger /\ PortfolioIdle /\ BookIdle /\ EventsIdle
InitPortfolioRun == CoreIdle /\ RulesIdle /\ MarketIdle /\ AssetsIdle /\ ContextIdle /\ LedgerIdle /\ InitPortfolio /\ BookIdle /\ EventsIdle
InitBookRun == CoreIdle /\ RulesIdle /\ MarketIdle /\ AssetsIdle /\ ContextIdle /\ LedgerIdle /\ PortfolioIdle /\ InitBook /\ EventsIdle
InitEventsRun == CoreIdle /\ RulesIdle /\ MarketIdle /\ AssetsIdle /\ ContextIdle /\ LedgerIdle /\ PortfolioIdle /\ BookIdle /\ InitEvents

InitProtocolRun == OrderIdle /\ InitProtocol /\ SpotIdle /\ EngineIdle /\ InitChain /\ RestIdle

InitOrderRun ==
    InitOrder /\ InitBalance /\ SpotIdle /\ EngineIdle /\ InitChain /\ RestIdle

InitOrderAnyRun ==
    InitOrderAny /\ InitBalance /\ SpotIdle /\ EngineIdle /\ InitChain /\ RestIdle

InitBalanceRun ==
    OrderIdle /\ InitBalance /\ SpotIdle /\ EngineIdle /\ InitChain /\ RestIdle

InitSpotRun ==
    OrderIdle /\ InitBalance /\ InitSpot /\ EngineIdle /\ InitChain /\ RestIdle

InitEngineRun ==
    OrderIdle /\ InitBalance /\ SpotIdle /\ InitEngine /\ InitChain /\ RestIdle

InitRerunRun ==
    /\ OrderIdle /\ InitBalance /\ SpotIdle /\ InitChain /\ RestIdle
    /\ enginePc = "idle"
    /\ initial_capital = InitialCapital * FeeScale
    /\ current_balance = initial_capital
    /\ current_bar = None
    /\ orders = <<>>
    /\ account_transactions = <<>>
    /\ account_balances = <<>>
    /\ nextOrderId = 1
    /\ data = None
    /\ strategyLog = <<>>
    /\ raisedOrder = None
    /\ on_bar_result = <<>>
    /\ rowsTaken = 0
    /\ runCalls = 0
    /\ results = <<>>
    /\ InitRerun
    /\ config = ExampleConfiguration
    /\ order_history = <<>>
    /\ backtest_runs = <<>>

InitChainRun ==
    OrderIdle /\ InitBalance /\ SpotIdle /\ EngineIdle /\ InitChain /\ RestIdle

SpecOrder == InitOrderRun /\ [][NextOrder]_vars

SpecOrderAny == InitOrderAnyRun /\ [][NextOrder]_vars

SpecBalance == InitBalanceRun /\ [][NextBalance]_vars

SpecSpot == InitSpotRun /\ [][NextSpot]_vars

SpecEngine == InitEngineRun /\ [][NextEngine]_vars

SpecChain == InitChainRun /\ [][NextChain]_vars

SpecRerun == InitRerunRun /\ [][NextRerun]_vars

SpecRules == InitRulesRun /\ [][NextRules]_vars

SpecMarket == InitMarketRun /\ [][NextMarket]_vars

SpecAssets == InitAssetsRun /\ [][NextAssets]_vars

SpecContext == InitContextRun /\ [][NextContext]_vars

SpecRuns == InitRunsRun /\ [][NextRuns]_vars

SpecProtocol == InitProtocolRun /\ [][NextProtocol]_vars

SpecPortfolio == InitPortfolioRun /\ [][NextPortfolio]_vars

SpecBook == InitBookRun /\ [][NextBook]_vars

SpecEvents == InitEventsRun /\ [][NextEvents]_vars

----------------------------------------------------------------------------
(* Properties of the TradingOrder state machine *)

Transitions == {"fill", "close", "cancel"}

FeeSum(o) ==
    o.fees_on_create + o.fees_on_fill + o.fees_on_close
        + o.fees_on_cancel + o.fees_on_overnight

\* C1: fill() succeeds exactly from PENDING, close() exactly from FILLED with
\* a fill price recorded, cancel() exactly from PENDING; a call from any
\* other state raises and leaves every field of the order as it was.
C1_GuardedTransitions ==
    [][ /\ orderCall'.op = "fill" =>
              (orderCall'.raised <=> order.status # "PENDING")
        /\ orderCall'.op = "close" =>
              (orderCall'.raised <=>
                  ~(order.status = "FILLED" /\ order.fill_price # None))
        /\ orderCall'.op = "cancel" =>
              (orderCall'.raised <=> order.status # "PENDING")
        /\ (orderCall'.op \in Transitions /\ orderCall'.raised) =>
              order' = order ]_vars

\* A close() was rejected on a FILLED order that has no fill price.
C1_Witness ==
    /\ orderCall.op = "close"
    /\ orderCall.raised
    /\ order.status = "FILLED"
    /\ order.fill_price = None

\* C2: the status only changes PENDING->FILLED, FILLED->CLOSED or
\* PENDING->CANCELLED; CLOSED and CANCELLED are never left.
C2_StatusTransitions ==
    [][ order'.status # order.status =>
            <<order.status, order'.status>> \in
                { <<"PENDING", "FILLED">>, <<"FILLED", "CLOSED">>,
                  <<"PENDING", "CANCELLED">> } ]_vars

\* fill() was called on a CANCELLED order, after the terminal state.
C2_Witness ==
    /\ order.status = "CANCELLED"
    /\ orderCall.op = "fill"

\* C4: after a successful close(), gross_pnl is (close - fill) * volume for
\* LONG and (fill - close) * volume for SHORT, and net_pnl is gross_pnl
\* minus the five fee accumulators, the close fee included.
C4_ClosePnl ==
    (orderCall.op = "close" /\ ~orderCall.raised) =>
        /\ order.fees_on_close = orderCall.fee
        /\ order.close_price = Some(orderCall.price)
        /\ order.direction = "LONG" =>
              order.gross_pnl =
                  (orderCall.price - Val(order.fill_price)) * order.volume
        /\ order.direction = "SHORT" =>
              order.gross_pnl =
                  (Val(order.fill_price) - orderCall.price) * order.volume
        /\ order.net_pnl = order.gross_pnl - FeeSum(order)

\* A SHORT order closed above its fill price, with fees on fill, close and
\* overnight.
C4_Witness ==
    /\ orderCall.op = "close"
    /\ ~orderCall.raised
    /\ order.direction = "SHORT"
    /\ order.gross_pnl < 0
    /\ order.fees_on_fill = 1
    /\ order.fees_on_close = 1
    /\ order.fees_on_overnight > 0

\* C5: a CLOSED order always has net_pnl = gross_pnl - sum of the five fee
\* accumulators, also after later add_overnight_fees calls.
C5_ClosedNetPnl ==
    order.status = "CLOSED" =>
        order.net_pnl = order.gross_pnl - FeeSum(order)

\* Overnight fees were added to an order that had already been closed.
C5_Witness ==
    /\ order.status = "CLOSED"
    /\ orderCall.op = "add_overnight_fees"
    /\ ~orderCall.raised
    /\ orderCall.fee > 0

\* C6: after a successful cancel() the status is CANCELLED, the cancel
\* timestamp and fee are recorded and net_pnl is minus the total fees.
C6_CancelResult ==
    (orderCall.op = "cancel" /\ ~orderCall.raised) =>
        /\ order.status = "CANCELLED"
        /\ order.cancel_timestamp = Some(orderCall.ts)
        /\ order.fees_on_cancel = orderCall.fee
        /\ order.net_pnl = 0 - FeeSum(order)

\* A PENDING order with overnight fees was cancelled with a cancel fee.
C6_Witness ==
    /\ orderCall.op = "cancel"
    /\ ~orderCall.raised
    /\ order.fees_on_cancel = 1
    /\ order.fees_on_overnight > 0
    /\ order.net_pnl < 0 - 1

\* C13: in every reachable state of a TradingOrder each of the five fee
\* accumulators is >= 0.
C13_FeesNonNegative ==
    /\ order.fees_on_create >= 0
    /\ order.fees_on_fill >= 0
    /\ order.fees_on_close >= 0
    /\ order.fees_on_cancel >= 0
    /\ order.fees_on_overnight >= 0

----------------------------------------------------------------------------
(* Properties of balance reconciliation *)

RECURSIVE SumAvailable(_)
SumAvailable(txs) ==
    IF txs = <<>> THEN 0
    ELSE Head(txs).available_balance_change + SumAvailable(Tail(txs))

RECURSIVE SumUnavailable(_)
SumUnavailable(txs) ==
    IF txs = <<>> THEN 0
    ELSE Head(txs).unavailable_balance_change + SumUnavailable(Tail(txs))

RECURSIVE SumTotalChange(_)
SumTotalChange(txs) ==
    IF txs = <<>> THEN 0
    ELSE total_balance_change(Head(txs)) + SumTotalChange(Tail(txs))

PriorAvailable(c) ==
    IF c.prior = None THEN 0 ELSE Val(c.prior).available_balance

PriorUnavailable(c) ==
    IF c.prior = None THEN 0 ELSE Val(c.prior).unavailable_balance

\* C3: a successful reconcile_balance returns prior available + sum of the
\* available deltas and prior unavailable + sum of the unavailable deltas,
\* so its total is the prior total + the sum of total_balance_change.
C3_ReconcileSums ==
    (balCall.op = "reconcile_balance" /\ ~balCall.raised) =>
        /\ balCall.result # None
        /\ Val(balCall.result).available_balance =
               PriorAvailable(balCall) + SumAvailable(balCall.txs)
        /\ Val(balCall.result).unavailable_balance =
               PriorUnavailable(balCall) + SumUnavailable(balCall.txs)
        /\ total_balance(Val(balCall.result)) =
               PriorAvailable(balCall) + PriorUnavailable(balCall)
                   + SumTotalChange(balCall.txs)

\* A reconciliation over a prior snapshot with locked funds and two
\* transactions: the margin is returned, then a fee is charged.
C3_Witness ==
    /\ balCall.op = "reconcile_balance"
    /\ ~balCall.raised
    /\ balCall.prior # None
    /\ PriorUnavailable(balCall) > 0
    /\ Len(balCall.txs) = 2
    /\ balCall.txs[1] = Transaction(1, 0 - 1)
    /\ balCall.txs[2] = Transaction(0 - 1, 0)

\* C8: when the replay would end with a negative available or unavailable
\* balance, reconcile_balance raises, stores nothing and leaves
\* get_latest_balance as it was.
C8_FailedReconcileStoresNothing ==
    [][ ( /\ balCall'.op = "reconcile_balance"
          /\ \/ PriorAvailable(balCall') + SumAvailable(balCall'.txs) < 0
             \/ PriorUnavailable(balCall') + SumUnavailable(balCall'.txs) < 0 )
        => /\ balCall'.raised
           /\ storage' = storage
           /\ \A a \in Accounts, r \in Runs :
                 get_latest_balance(storage', a, r) =
                     get_latest_balance(storage, a, r) ]_vars

\* A reconciliation over a stored snapshot was rejected because the
\* unavailable balance would have become negative.
C8_Witness ==
    /\ balCall.op = "reconcile_balance"
    /\ balCall.raised
    /\ balCall.prior # None
    /\ Len(storage) > 0
    /\ PriorAvailable(balCall) + SumAvailable(balCall.txs) >= 0
    /\ PriorUnavailable(balCall) + SumUnavailable(balCall.txs) < 0

\* C9: a Balance with a negative component is never constructed, so every
\* stored Balance has both components >= 0.
C9_StoredBalancesNonNegative ==
    /\ \A i \in 1..Len(storage) :
          /\ storage[i].available_balance >= 0
          /\ storage[i].unavailable_balance >= 0
    /\ (balCall.op = "save" /\ \E k \in 1..2 : Val(balCall.ctor)[k] < 0) =>
          (balCall.raised /\ balCall.result = None)

\* Balance(available >= 0, unavailable < 0) was rejected while the
\* repository holds balances.
C9_Witness ==
    /\ balCall.op = "save"
    /\ balCall.raised
    /\ Val(balCall.ctor)[1] >= 0
    /\ Val(balCall.ctor)[2] < 0
    /\ Len(storage) > 0

----------------------------------------------------------------------------
(* Properties of the SpotOrder copy methods *)

\* The volume a call asks for: the argument, or the documented default
\* (the full volume for a fill, the remaining volume for a cancel).
RequestedVolume(c, o) ==
    IF c.volume # None THEN Val(c.volume)
    ELSE IF c.op = "create_filled_copy" THEN o.volume
    ELSE o.volume - (IF o.fill_volume = None THEN 0 ELSE Val(o.fill_volume))
                  - (IF o.cancel_volume = None THEN 0 ELSE Val(o.cancel_volume))

\* C10: create_filled_copy / create_cancelled_copy produce a new order only
\* when the order is PENDING and the requested volume is > 0 and at most the
\* remaining volume (volume - fill_volume - cancel_volume, unset as zero).
C10_CopyValidated ==
    (spotCall.op \in {"create_filled_copy", "create_cancelled_copy"}
        /\ ~spotCall.raised) =>
        /\ spot.status = "PENDING"
        /\ RequestedVolume(spotCall, spot) > 0
        /\ RequestedVolume(spotCall, spot) <=
               spot.volume
                 - (IF spot.fill_volume = None THEN 0 ELSE Val(spot.fill_volume))
                 - (IF spot.cancel_volume = None THEN 0
                    ELSE Val(spot.cancel_volume))

\* The fields neither copy method touches.
SameIdentity(r, o) ==
    /\ r.id = o.id
    /\ r.parent_id = o.parent_id
    /\ r.root_id = o.root_id
    /\ r.direction = o.direction
    /\ r.volume = o.volume
    /\ r.fee_create = o.fee_create

Untouched(o) == o.fill_volume = None /\ o.cancel_volume = None

\* What a successful create_filled_copy recorded by c must have returned
\* for the order o.
FilledCopyOf(c, o) ==
    LET r == Val(c.result) IN
    /\ SameIdentity(r, o)
    /\ r.status = "FILLED"
    /\ r.fill_timestamp = c.timestamp
    /\ r.fill_price = c.price
    /\ r.fee_fill = c.fee
    /\ r.cancel_timestamp = o.cancel_timestamp
    /\ r.cancel_volume = o.cancel_volume
    /\ r.fee_cancel = o.fee_cancel
    /\ (c.volume = None => r.fill_volume = Some(o.volume))
    /\ (c.volume # None /\ Val(c.volume) > 0) =>
           /\ r.fill_volume = c.volume
           /\ Untouched(o) =>
                  r.volume - Val(r.fill_volume) = o.volume - Val(c.volume)

CancelledCopyOf(c, o) ==
    LET r == Val(c.result) IN
    /\ SameIdentity(r, o)
    /\ r.status = "CANCELLED"
    /\ r.cancel_timestamp = c.timestamp
    /\ r.fee_cancel = c.fee
    /\ r.fill_timestamp = o.fill_timestamp
    /\ r.fill_price = o.fill_price
    /\ r.fill_volume = o.fill_volume
    /\ r.fee_fill = o.fee_fill
    /\ (c.volume # None /\ Val(c.volume) > 0) => r.cancel_volume = c.volume

----------------------------------------------------------------------------
(* Properties of order chains *)

\* The id of the order at the top of the parent chain of the order with
\* the given id.
RECURSIVE UltimateRoot(_, _)
UltimateRoot(c, id) ==
    IF ParentOf(c[id]) = None THEN id
    ELSE UltimateRoot(c, Val(ParentOf(c[id])))

\* C12: an order created without a parent is its own root, an order created
\* with a parent carries the root at the top of its parent chain, and no
\* order has an unset root id.
C12_RootIsChainRoot ==
    \A i \in 1..Len(chain) :
        /\ RootOf(chain[i]) # None
        /\ ParentOf(chain[i]) = None => RootOf(chain[i]) = Some(IdOf(chain[i]))
        /\ ParentOf(chain[i]) # None =>
               RootOf(chain[i]) = Some(UltimateRoot(chain, i))

----------------------------------------------------------------------------
(* Properties of the engine run *)

\* The effect of the recorded transactions on the cash balance: a FILL
\* debits its amount, a CLOSE credits it.
RECURSIVE NetEffect(_)
NetEffect(txs) ==
    IF txs = <<>> THEN 0
    ELSE (IF Head(txs).transaction_type = "FILL"
          THEN 0 - Head(txs).amount ELSE Head(txs).amount)
         + NetEffect(Tail(txs))

\* C7: after each processed bar (and after the end-of-run closes) the
\* running balance is the initial capital plus the net effect of the
\* recorded transactions.
C7_BalanceIsLedger ==
    (enginePc \in {"running", "ended"} /\ current_bar # None) =>
        current_balance = initial_capital + NetEffect(account_transactions)

\* The callbacks a run makes up to and including its n-th bar.
CallsThroughBar(n) ==
    <<Event("on_start", 0)>> \o [i \in 1..n |-> Event("on_bar", i)]

\* C14: on_start is called once, before the first on_bar; on_bar once per
\* bar, in ascending timestamp order; on_end once, after the last on_bar and
\* before the remaining positions are force-closed.
C14_CallbackOrder ==
    /\ enginePc = "idle" => strategyLog = <<>>
    /\ enginePc = "running" => strategyLog = CallsThroughBar(BarsDone)
    /\ enginePc = "ended" =>
          /\ BarsDone = Val(data).rows
          /\ strategyLog = CallsThroughBar(BarsDone)
                             \o <<Event("on_end", 0),
                                  Event("_close_all_positions", 0)>>

C14_Witness ==
    /\ enginePc = "ended"
    /\ BarsDone = 2
    /\ Len(strategyLog) = 5
    /\ \E i \in 1..Len(orders) :
          orders[i].status = "CLOSED" /\ orders[i].close_timestamp = Some(2)

\* What the engine charges for filling the order o at the close of bar.
CostOf(o, bar) == bar.close * o.volume + Fee(bar.close, o.volume)

\* C15: an order whose cost exceeds the account's funds is not filled and
\* does not make the run raise: it ends CANCELLED.  Stated for the first
\* order a bar's on_bar returns, whose funds are the balance before the bar.
C15_UnaffordableOrderCancelled ==
    [][ (enginePc = "running" /\ nextOrderId' > nextOrderId) =>
            \A i \in 1..Len(orders') :
                (/\ orders'[i].id = nextOrderId
                 /\ CostOf(orders'[i], Val(current_bar')) > current_balance)
                => /\ orders'[i].status = "CANCELLED"
                   /\ orders'[i].fill_price = None ]_vars

StopLossBreached(o, bar) ==
    o.stop_loss # None /\ bar.low <= Val(o.stop_loss)

TakeProfitBreached(o, bar) ==
    o.take_profit # None /\ bar.high >= Val(o.take_profit)

\* The order was already closed when the bar began.
ClosedBefore(o) ==
    \E j \in 1..Len(orders) : orders[j].id = o.id /\ orders[j].status = "CLOSED"

\* The order was closed by a SHORT order that the strategy returned on the bar.
ClosedByShort(o, bar, txs) ==
    \E j \in 1..Len(txs) :
        /\ txs[j].transaction_type = "CLOSE"
        /\ txs[j].related_order_id = o.id
        /\ txs[j].timestamp = bar.timestamp

StoredOrder(st, id) == st[CHOOSE j \in 1..Len(st) : st[j].id = id]

\* C17: when run() returns no order of the context is FILLED: every order
\* that was open after the last bar is CLOSED with the final bar's close
\* price and timestamp.
C17_RunEndClosesPositions ==
    [][ (enginePc = "running" /\ enginePc' = "ended") =>
            /\ \A i \in 1..Len(orders') : orders'[i].status # "FILLED"
            /\ \A j \in 1..Len(orders) :
                  orders[j].status = "FILLED" =>
                      LET o == StoredOrder(orders', orders[j].id) IN
                      /\ o.status = "CLOSED"
                      /\ o.close_price = Some(Val(current_bar).close)
                      /\ o.close_timestamp = Some(Val(current_bar).timestamp) ]_vars

C17_Witness ==
    /\ enginePc = "ended"
    /\ current_bar # None
    /\ Val(current_bar).timestamp = 2
    /\ Val(current_bar).close # Val(current_bar).high
    /\ \E i \in 1..Len(orders) :
          /\ orders[i].status = "CLOSED"
          /\ orders[i].fill_timestamp = Some(1)
          /\ orders[i].stop_loss = None
          /\ orders[i].take_profit = None
          /\ orders[i].close_timestamp = Some(2)
          /\ orders[i].close_price = Some(Val(current_bar).close)
          /\ ~ClosedByShort(orders[i], Val(current_bar), account_transactions)

\* C18: a run leaves one balance snapshot per processed bar, carrying the
\* bar's timestamp, and each snapshot holds the running balance after the
\* bar's orders and exits were applied.
C18_SnapshotPerBar ==
    [][ /\ enginePc' \in {"running", "ended"} =>
              /\ Len(account_balances') = BarsDone'
              /\ \A i \in 1..Len(account_balances') :
                    account_balances'[i].timestamp = i
        /\ (enginePc = "running" /\ enginePc' = "running"
                /\ BarsDone' > BarsDone) =>
              LET snapshot == account_balances'[Len(account_balances')] IN
              /\ snapshot.timestamp = Val(current_bar').timestamp
              /\ snapshot.total_balance = current_balance'
              /\ snapshot.available_balance = current_balance'
              /\ \A i \in 1..Len(account_balances) :
                    account_balances'[i] = account_balances[i] ]_vars

C18_Witness ==
    /\ enginePc = "ended"
    /\ BarsDone = 2
    /\ Len(account_balances) = 2
    /\ account_balances[1].total_balance # account_balances[2].total_balance

\* A frame that lacks the close column or has no rows.
Malformed(frame) == ~frame.has_close \/ frame.rows = 0

\* C19: run() on malformed data (no close column, or no rows) does not
\* return normally, and no bar is processed: on_bar is never called, no
\* order is stored and no balance snapshot is recorded.
C19_MalformedDataRejected ==
    (data # None /\ Malformed(Val(data))) =>
        /\ enginePc # "ended"
        /\ \A i \in 1..Len(strategyLog) : strategyLog[i].event # "on_bar"
        /\ orders = <<>>
        /\ account_balances = <<>>

\* A LONG order that fill() rejects.
Unfillable(o) == o.direction = "LONG" /\ o.status # "PENDING"

\* C20: the engine does not swallow an order's state-transition error.  When
\* on_bar returns a LONG order that is not PENDING, run() raises; the order's
\* fields are unchanged, it is not stored, and nothing is debited for it
\* (when it is the first order of the bar, the balance, the stored orders
\* and the transactions are those from before the bar).
C20_FillErrorPropagates ==
    [][ (enginePc = "running" /\ BarsDone' > BarsDone) =>
            /\ (\E k \in 1..Len(on_bar_result') : Unfillable(on_bar_result'[k]))
                   => (enginePc' = "failed" /\ raisedOrder' # None)
            /\ raisedOrder' # None =>
                   LET f == Val(raisedOrder') IN
                   /\ enginePc' = "failed"
                   /\ Unfillable(f.returned)
                   /\ f.left = f.returned
                   /\ \A i \in 1..Len(orders') : orders'[i].id # f.returned.id
                   /\ f.first =>
                          /\ current_balance' = current_balance
                          /\ orders' = orders
                          /\ account_transactions' = account_transactions
                          /\ account_balances' = account_balances ]_vars

C20_Witness ==
    /\ enginePc = "failed"
    /\ raisedOrder # None
    /\ Val(raisedOrder).returned.status = "FILLED"
    /\ Val(raisedOrder).returned.direction = "LONG"
    /\ BarsDone = 2
    /\ Len(orders) > 0

(***************************************************************************)
(* Properties of repeated runs and of the context                          *)
(***************************************************************************)

\* A step in which a call of run() reaches on_start.
RunStarted == enginePc # "running" /\ enginePc' = "running"

\* C21: every call of run() starts from a clean runtime state: when on_start
\* is reached the orders, the order history, the balance snapshots and the
\* transactions of earlier runs are gone and the running balance is
\* initial_capital again, while the configuration repositories are as they
\* were; and the runs of one engine on the same frame with the same strategy
\* outputs return identical metrics.
C21_RunsStartClean ==
    /\ [][RunStarted =>
            /\ orders' = <<>>
            /\ order_history' = <<>>
            /\ account_balances' = <<>>
            /\ account_transactions' = <<>>
            /\ current_balance' = initial_capital
            /\ config' = config]_vars
    /\ [](\A i, j \in 1..Len(results) : results[i] = results[j])

\* A second run has returned after a first run that traded, moved the
\* balance and recorded snapshots.
C21_Witness ==
    /\ Len(results) = 2
    /\ results[1].num_trades > 0
    /\ results[1].final_balance # initial_capital
    /\ results[1].max_balance # None

(***************************************************************************)
(* Properties of the trading rules                                         *)
(***************************************************************************)

\* The notional value of the last call's arguments.
CallNotional == rulesCall.volume * rulesCall.price * rulesCall.contract_size

\* C22: calculate_margin_required returns volume * price * contract_size
\* under NO_LEVERAGE, volume * leverage_value under FLAT_MARGIN_PER_VOLUME
\* and the notional value divided by leverage_value under MARGIN_MULTIPLIER,
\* where it never divides by zero; and the call changes no field of the
\* rules.
C22_MarginRequired ==
    /\ [](rulesCall.op = "calculate_margin_required" =>
            /\ ~rulesCall.raised
            /\ rules.leverage_type = "NO_LEVERAGE" =>
                   rulesCall.result = <<CallNotional, 1>>
            /\ rules.leverage_type = "FLAT_MARGIN_PER_VOLUME" =>
                   rulesCall.result = <<rulesCall.volume * rules.leverage_value, 1>>
            /\ rules.leverage_type = "MARGIN_MULTIPLIER" =>
                   /\ rules.leverage_value # 0
                   /\ rulesCall.result[2] # 0
                   /\ rulesCall.result[1] * rules.leverage_value
                          = CallNotional * rulesCall.result[2])
    /\ [][rulesCall'.op = "calculate_margin_required" => rules' = rules]_vars

\* A margin under MARGIN_MULTIPLIER that is a proper quotient: 1 * 1 * 1 / 2.
C22_Witness ==
    /\ rulesCall.op = "calculate_margin_required"
    /\ rules.leverage_type = "MARGIN_MULTIPLIER"
    /\ rules.leverage_value = 2
    /\ CallNotional = 1
    /\ rulesCall.result = <<1, 2>>


\* The five checks of validate_order, on the last call's arguments.  The
\* required margin is the one C22 describes.
DirectionPermitted ==
    IF rulesCall.is_long THEN rules.allows_long ELSE rules.allows_short
VolumeSuffices == rulesCall.volume >= rules.min_volume
NotionalSuffices == CallNotional >= rules.min_notional_amount
RequiredMargin ==
    IF rules.leverage_type = "NO_LEVERAGE" THEN <<CallNotional, 1>>
    ELSE IF rules.leverage_type = "FLAT_MARGIN_PER_VOLUME"
    THEN <<rulesCall.volume * rules.leverage_value, 1>>
    ELSE <<CallNotional, rules.leverage_value>>
RequiredSuffices ==
    RequiredMargin[1] >= rules.min_margin_amount * RequiredMargin[2]
AvailableSuffices == rulesCall.margin * RequiredMargin[2] >= RequiredMargin[1]

\* The five checks in the order of the claim, each with its message.
OrderChecks ==
    << <<DirectionPermitted,
         IF rulesCall.is_long THEN "Long positions not allowed"
         ELSE "Short positions not allowed">>,
       <<VolumeSuffices, "Volume below minimum">>,
       <<NotionalSuffices, "Notional below minimum">>,
       <<RequiredSuffices, "Margin below minimum">>,
       <<AvailableSuffices, "Insufficient margin">> >>

\* C23: validate_order raises for no violation of a rule and changes no
\* field of the rules; it returns (False, reason) with the reason of the
\* first check that fails, in the order direction, minimum volume, minimum
\* notional, minimum margin, available margin, and (True, None) exactly when
\* all five checks hold.
C23_ValidateOrder ==
    /\ [](rulesCall.op = "validate_order" =>
            /\ ~rulesCall.raised
            /\ rulesCall.result = <<TRUE, None>>
                   <=> \A k \in 1..Len(OrderChecks) : OrderChecks[k][1]
            /\ \A k \in 1..Len(OrderChecks) :
                   (/\ ~OrderChecks[k][1]
                    /\ \A j \in 1..(k - 1) : OrderChecks[j][1])
                   => rulesCall.result = <<FALSE, Some(OrderChecks[k][2])>>)
    /\ [][rulesCall'.op = "validate_order" => rules' = rules]_vars

\* An order that fails both margin checks is refused for the minimum margin.
C23_Witness ==
    /\ rulesCall.op = "validate_order"
    /\ DirectionPermitted /\ VolumeSuffices /\ NotionalSuffices
    /\ ~RequiredSuffices /\ ~AvailableSuffices
    /\ rulesCall.result = <<FALSE, Some("Margin below minimum")>>


(***************************************************************************)
(* Properties of the market data repository                                *)
(***************************************************************************)

\* The bars held for a symbol and a timeframe: what get_bars returns for
\* them without a range and a limit.
get_bars(d, symbol, timeframe_code) ==
    BarsUnder(d, _make_key(symbol, timeframe_code))

\* The timestamps of the bars of a sequence.
Timestamps(bars) == { bars[i].timestamp : i \in 1..Len(bars) }

\* The bars of a batch that are saved under the key of the pair.
SavedFor(bars, symbol, timeframe_code) ==
    LET under(b) == _make_key(b.symbol, b.timeframe)
                        = _make_key(symbol, timeframe_code)
    IN SelectSeq(bars, under)

\* C24: in whatever order of timestamps bars are given to save_bar and
\* save_bars, the bars held for each symbol and timeframe are strictly
\* ascending by timestamp, so at most one is held per timestamp; a saved bar
\* whose timestamp is held already takes the place of the held bar and the
\* count stays, and a bar with a new timestamp adds one to the count.
C24_BarsAscending ==
    /\ [](\A s \in MarketSymbols, c \in TimeframeCodes :
            LET bars == get_bars(_data, s, c)
            IN \A i, j \in 1..Len(bars) :
                   i < j => bars[i].timestamp < bars[j].timestamp)
    /\ [][\A s \in MarketSymbols, c \in TimeframeCodes :
            LET old == get_bars(_data, s, c)
                new == get_bars(_data', s, c)
                given == SavedFor(marketCall'.bars, s, c)
            IN marketCall'.op \in {"save_bar", "save_bars"} =>
                 /\ Timestamps(new) = Timestamps(old) \cup Timestamps(given)
                 /\ Len(new) = Cardinality(Timestamps(old) \cup Timestamps(given))
                 /\ \A i \in 1..Len(new) :
                      LET at(b) == b.timestamp = new[i].timestamp
                          last == SelectSeq(given, at)
                      IN new[i] = IF last = <<>>
                                  THEN SelectSeq(old, at)[1]
                                  ELSE last[Len(last)]
                 /\ (Len(given) = 1 /\ given[1].timestamp \in Timestamps(old)) =>
                      \E i \in 1..Len(old) :
                          /\ old[i].timestamp = given[1].timestamp
                          /\ new = [old EXCEPT ![i] = given[1]]]_vars

\* Bars were saved latest first and a held bar was then replaced by a bar
\* with other prices.
C24_Witness ==
    /\ marketCall.op = "save_bar"
    /\ Held(_data) = 3
    /\ \E s \in MarketSymbols, c \in TimeframeCodes :
         LET bars == get_bars(_data, s, c)
         IN /\ Len(bars) = 3
            /\ bars[2] = marketCall.bars[1]
            /\ bars[2].close = 2


(***************************************************************************)
(* Properties of the asset repository                                      *)
(***************************************************************************)

\* C25: after any sequence of save, delete and clear on the asset
\* repository, the lookup by ticker returns an asset exactly when a stored
\* asset has that ticker, and the asset it returns has that ticker.
C25_LookupByTicker ==
    \A ticker \in Tickers :
        LET found == get_by_ticker(asset_storage, _ticker_index, ticker)
        IN /\ found # None
               <=> \E id \in DOMAIN asset_storage :
                       asset_storage[id].ticker = ticker
           /\ found # None => Val(found).ticker = ticker


(***************************************************************************)
(* Properties of the context                                               *)
(***************************************************************************)

\* C26: reset_runtime_state empties the runtime repositories (orders, order
\* history, account balances, account transactions) and leaves every
\* configuration repository (assets, brokers, agents, accounts, tax
\* regimes, trading pairs, trading rules) exactly as it was.
C26_ResetKeepsConfiguration ==
    contextCall.op = "reset_runtime_state" =>
        /\ orders = <<>>
        /\ order_history = <<>>
        /\ account_balances = <<>>
        /\ account_transactions = <<>>
        /\ \A r \in ConfigRepositories : config[r] = contextCall.before.config[r]

\* A reset of a context whose repositories all held an entity.
C26_Witness ==
    /\ contextCall.op = "reset_runtime_state"
    /\ \A r \in ConfigRepositories : config[r] # {}
    /\ \A r \in RuntimeRepositories : contextCall.before[r] # <<>>


(***************************************************************************)
(* Properties of the transaction repository and of the protocol            *)
(***************************************************************************)

\* The entities of a sequence that belong to the run, and those that do
\* not.
OfRun(entities, run) ==
    LET ofRun(e) == e.backtest_run_id = run IN SelectSeq(entities, ofRun)
NotOfRun(entities, run) ==
    LET other(e) == e.backtest_run_id # run IN SelectSeq(entities, other)

\* C27: clear_run(run) on the transaction repository and on the balance
\* repository removes exactly the entities of that run, returns how many it
\* removed, and leaves the entities of the other runs stored, unchanged and
\* in their order.
C27_ClearRunRemovesRun ==
    [][/\ (ledgerCall'.op = "clear_run" /\ <<tx_storage, ledgerCall>>' # <<tx_storage, ledgerCall>>) =>
            /\ tx_storage' = NotOfRun(tx_storage, ledgerCall'.run)
            /\ ledgerCall'.deleted = Len(OfRun(tx_storage, ledgerCall'.run))
       /\ (balCall'.op = "clear_run" /\ <<storage, balCall>>' # <<storage, balCall>>) =>
            /\ storage' = NotOfRun(storage, balCall'.run)
            /\ balCall'.deleted = Len(OfRun(storage, balCall'.run))]_vars

\* Both repositories were cleared of one run of which they held an entity,
\* and keep an entity of the other run.
C27_Witness ==
    /\ ledgerCall.op = "clear_run" /\ ledgerCall.deleted = 1
    /\ Len(tx_storage) = 1
    /\ balCall.op = "clear_run" /\ balCall.deleted = 1
    /\ Len(storage) = 1


\* The transactions of the reconciled account saved so far.
SavedSoFar ==
    LET ofAccount(t) == t.account_id = ProtocolAccount
    IN SelectSeq(tx_storage, ofAccount)

\* C29: under the incremental protocol, whatever the interleaving of
\* transaction saves and reconciliation steps, after a step the latest
\* snapshot is the initial snapshot plus the deltas of all the account's
\* transactions saved so far: none is skipped and none is applied twice.
C29_AppliedExactlyOnce ==
    (ledgerCall.op = "reconcile" /\ ~ledgerCall.raised) =>
        LET latest == Val(get_latest_balance(storage, ProtocolAccount, ProtocolRun))
        IN /\ latest.available_balance
                  = initial_balance.available_balance + SumAvailable(SavedSoFar)
           /\ latest.unavailable_balance
                  = initial_balance.unavailable_balance + SumUnavailable(SavedSoFar)


(***************************************************************************)
(* Properties of the portfolio                                             *)
(***************************************************************************)

\* The cost of the order of the last execute_order call: fill price times
\* quantity plus the commission.
CostOfGiven ==
    LET value == portfolioCall.fill_price * Val(portfolioCall.given).quantity
    IN value + (IF commission < CashScale THEN (value * commission) \div CashScale
                ELSE commission)

\* C28: execute_order for a BUY order whose cost, fill price times quantity
\* plus commission, exceeds the cash does not execute it: it returns False,
\* the order's status becomes REJECTED, and cash, positions and
\* transaction_history are as before.
C28_UnaffordableBuyRejected ==
    (/\ portfolioCall.op = "execute_order"
     /\ Val(portfolioCall.given).side = "BUY"
     /\ CostOfGiven > Val(portfolioCall.before).cash) =>
        /\ portfolioCall.result = FALSE
        /\ Val(portfolioOrder).status = "REJECTED"
        /\ cash = Val(portfolioCall.before).cash
        /\ positions = Val(portfolioCall.before).positions
        /\ transaction_history = Val(portfolioCall.before).transaction_history

\* A BUY that only the commission makes too dear, on a portfolio that holds
\* a position.
C28_Witness ==
    /\ portfolioCall.op = "execute_order"
    /\ Val(portfolioCall.given).side = "BUY"
    /\ CostOfGiven > Val(portfolioCall.before).cash
    /\ portfolioCall.fill_price * Val(portfolioCall.given).quantity <= Val(portfolioCall.before).cash
    /\ positions # <<>>
    /\ Val(portfolioOrder).status = "REJECTED"


(***************************************************************************)
(* Properties of the final balance                                         *)
(***************************************************************************)

\* The CLOSED orders of the run.
ClosedOrders ==
    LET isClosed(o) == o.status = "CLOSED" IN SelectSeq(orders, isClosed)

\* C30: when run() returns, the final balance is initial_capital plus the
\* sum of net_pnl over the CLOSED orders of the run, whatever LONG orders
\* and SHORT close signals of whatever volume the strategy returned, a SHORT
\* signal smaller than the LONG order it closes included.
C30_FinalBalanceIsPnl ==
    enginePc = "ended" =>
        current_balance = initial_capital + SumNetPnl(ClosedOrders)


(***************************************************************************)
(* Properties of the copies of a spot order                                *)
(***************************************************************************)

\* The indices in made of the copies derived from the object at index k.
CopiesOf(k) == { i \in 1..Len(made) : made[i].from = k }

RECURSIVE CopiedVolume(_)
CopiedVolume(is) ==
    IF is = {} THEN 0
    ELSE LET i == CHOOSE j \in is : TRUE
             o == made[i].order
         IN OrElse(o.fill_volume, 0) + OrElse(o.cancel_volume, 0)
            + CopiedVolume(is \ {i})

\* C31: for a SpotOrder created PENDING with no fill or cancel volume, the
\* fill volumes and cancel volumes of the copies derived from it never
\* exceed the order's volume together, and remaining_volume of every copy
\* is at least 0.
C31_CopiesWithinVolume ==
    \A k \in Originals(made) :
        /\ CopiedVolume(CopiesOf(k)) <= made[k].order.volume
        /\ \A i \in CopiesOf(k) : remaining_volume(made[i].order) >= 0

\* The records get_by_root_id returns for a root.
ChainRecords(root_id) ==
    LET found == get_by_root_id(spot_storage, root_id)
    IN { found[i] : i \in 1..Len(found) }

\* C32: the repository holds the pending original together with the filled
\* and cancelled copies made from it: saving a copy does not overwrite or
\* remove the record it was made from, and get_by_root_id returns every
\* record of the chain.
C32_CopiesKeptWithOriginal ==
    \A i \in 1..Len(made) :
        made[i].order \in ChainRecords(Val(made[i].order.root_id))


(***************************************************************************)
(* Properties of the order's fees and fields over its life                 *)
(***************************************************************************)

\* C33: in every state after an order has been cancelled, later
\* add_overnight_fees calls included, a CANCELLED order has
\* net_pnl = -(fees_on_create + fees_on_fill + fees_on_close +
\* fees_on_cancel + fees_on_overnight).
C33_CancelledNetPnlIsFees ==
    order.status = "CANCELLED" => order.net_pnl = 0 - total_fees(order)

\* C34: overnight fees accrue only on orders that have been filled:
\* fees_on_overnight is 0 for every order that has never been FILLED (an
\* order created PENDING that is still PENDING or was CANCELLED).
C34_OvernightFeesOnlyAfterFill ==
    order.status \in {"PENDING", "CANCELLED"} => order.fees_on_overnight = 0

\* C35: for an order created PENDING and driven through fill, close, cancel
\* and add_overnight_fees, fill_price and fill_timestamp are set exactly
\* when the status is FILLED or CLOSED, close_price and close_timestamp
\* exactly when it is CLOSED, cancel_timestamp exactly when it is
\* CANCELLED, and gross_pnl and net_pnl are 0 while it is PENDING or FILLED.
C35_FieldsFollowStatus ==
    /\ order.fill_price # None <=> order.status \in {"FILLED", "CLOSED"}
    /\ order.fill_timestamp # None <=> order.status \in {"FILLED", "CLOSED"}
    /\ order.close_price # None <=> order.status = "CLOSED"
    /\ order.close_timestamp # None <=> order.status = "CLOSED"
    /\ order.cancel_timestamp # None <=> order.status = "CANCELLED"
    /\ order.status \in {"PENDING", "FILLED"} =>
           order.gross_pnl = 0 /\ order.net_pnl = 0

\* A closed order that made a profit and then took an overnight fee.
C35_Witness ==
    /\ order.status = "CLOSED"
    /\ order.gross_pnl > 0
    /\ order.fees_on_overnight > 0
    /\ orderCall.op = "add_overnight_fees"
    /\ ~orderCall.raised


(***************************************************************************)
(* Properties of the order of the transactions given to reconcile_balance  *)
(***************************************************************************)

\* The running pair of the call c after its first n transactions.
RunningPair(c, n) ==
    ApplyTransactions(PriorAvailable(c), PriorUnavailable(c), c.txs, n)

\* C36: reconcile_balance rejects a transaction list as soon as the running
\* available or unavailable balance would be negative after some prefix of
\* the list, not only when the balance after the whole list is negative.
C36_NegativePrefixRejected ==
    ( /\ balCall.op = "reconcile_balance"
      /\ \E n \in 1..Len(balCall.txs) :
            RunningPair(balCall, n)[1] < 0 \/ RunningPair(balCall, n)[2] < 0 )
    => balCall.raised

\* The list txs taken in the order p.
Permuted(txs, p) == [i \in 1..Len(txs) |-> txs[p[i]]]

\* What reconcile_balance makes of the prior balance and the transactions
\* of the call c, taken in the order p.
Reordered(c, p) ==
    reconcile_balance(<<>>, 0, "A1", 1, 1, Permuted(c.txs, p), c.prior)

\* C37: the outcome of reconcile_balance does not depend on the order of
\* the transactions: for any prior balance and any permutation of the same
\* transactions it fails in both cases or returns the same
\* available_balance and unavailable_balance.
C37_OrderIndependent ==
    balCall.op = "reconcile_balance" =>
        \A p \in Permutations(1..Len(balCall.txs)) :
            /\ Reordered(balCall, p).raised = balCall.raised
            /\ ~balCall.raised =>
                  /\ Val(Reordered(balCall, p).result).available_balance =
                         Val(balCall.result).available_balance
                  /\ Val(Reordered(balCall, p).result).unavailable_balance =
                         Val(balCall.result).unavailable_balance

\* A reconciliation from nothing went through although margin was reserved
\* before the deposit that covers it.
C37_Witness ==
    /\ balCall.op = "reconcile_balance"
    /\ ~balCall.raised
    /\ balCall.prior = None
    /\ balCall.txs = <<Transaction(0 - 1, 1), Transaction(1, 0)>>
    /\ Val(balCall.result).available_balance = 0
    /\ Val(balCall.result).unavailable_balance = 1


(***************************************************************************)
(* Properties of a refused execute_order                                   *)
(***************************************************************************)

\* C38: whenever execute_order returns False, for an order in any status
\* (one already filled by an earlier call included) and after any earlier
\* calls, the portfolio's cash, positions and transaction_history are as
\* they were before the call.
C38_RefusalChangesNothing ==
    (portfolioCall.op = "execute_order" /\ ~portfolioCall.result) =>
        /\ cash = Val(portfolioCall.before).cash
        /\ positions = Val(portfolioCall.before).positions
        /\ transaction_history = Val(portfolioCall.before).transaction_history


(***************************************************************************)
(* Properties of event dispatch                                            *)
(***************************************************************************)

\* C39: emit invokes every callback that is subscribed to the event type
\* when emit starts exactly once, in subscription order, also when a
\* callback unsubscribes itself or another callback during the dispatch.
C39_EmitReachesEverySubscriber ==
    emitCall.pc = "returned" => emitCall.invoked = emitCall.at_start

====
